---------------------------- MODULE Spec2Model ----------------------------
(***************************************************************************)
(* persona-lens: the snapshot-to-structured-data pipeline.                 *)
(*                                                                         *)
(*   _snowflake_to_ms    tweet id -> UTC milliseconds                      *)
(*   extract_tweet_data  raw accessibility snapshot -> list of tweets      *)
(*                                                                         *)
(* Text is modelled as a sequence of tokens, each token standing for the   *)
(* literal substring it spells ("- text:", "/url: ", "/status/", one       *)
(* digit, one comma, one blank, ...).  Python's unbounded int is modelled  *)
(* as a sign and a decimal magnitude, so no value is truncated.            *)
(***************************************************************************)
EXTENDS Integers, Sequences, FiniteSets, TLC

VARIABLES
    dec_ids,        \* decoder: the two tweet_id arguments under comparison
    dec_out,        \* decoder: what each call returned ("pending" before it ran)
    snapshot,       \* parser: the lines of the snapshot argument the loop has reached (unstripped)
    pending_texts,  \* parser: pending_texts
    pending_stats,  \* parser: pending_stats (None is the empty string)
    tweets,         \* parser: tweets
    pc,             \* parser: "idle" | "loop" | "done" | "raised"
    boundaries,     \* history: per appended tweet, the line and the accumulators it was built from
    all_tweets,     \* analyze: all_tweets, the parser's result
    username,       \* analyze: the username argument as received
    user_tweets,    \* analyze: user_tweets ("pending" before the comprehension ran)
    cp_tweets,      \* compute_posting_patterns: the tweets argument
    cp_t,           \* compute_posting_patterns: how many tweets the for loop has taken
    days,           \* compute_posting_patterns: days (a Counter: only the keys counted so far)
    hours,          \* compute_posting_patterns: hours (a Counter)
    cp_pc,          \* compute_posting_patterns: "idle" | "loop" | "done" | "raised"
    call_snapshot,  \* two calls of extract_tweet_data: the snapshot argument of each (its lines)
    call_frame,     \* two calls: the locals of each call (lines taken, pending_texts, pending_stats, tweets)
    call_out,       \* two calls: what each returned ("pending" before it returned)
    call_overlap,   \* history: a call took a step while the other was between its first line and its return
    header,         \* parse_account: per count field, the text that follows its label in the header
    account,        \* parse_account: the count fields of the Account ("pending" until a field is parsed)
    activeSessionId,    \* AnalysisPage: activeSessionId of useSessionManager
    state,          \* useAnalysis: state (status and result, a result carrying the session its request named)
    request,        \* useAnalysis: the analyze request awaiting its events, if any
    profilesBySession,  \* AnalysisPage: profilesBySession
    fetching,       \* AnalysisPage: the sessions whose stored profiles are being fetched
    sessionId,      \* ChatPanel: the sessionId prop of the mounted panel
    sessionIdRef,   \* useChat: sessionIdRef.current
    localStorageId, \* localStorage: the item "persona-lens-session-id" ("" when absent)
    isStreaming,    \* useChat: state.isStreaming
    sent,           \* history: the POST /api/chat requests issued so far, each with the sessionId prop of the panel that sent it
    analysisState,  \* use-analysis, the AnalysisState of the hook
    analyzeCalls,   \* use-analysis, the analyze() calls made so far, each with its response stream
    chatState,      \* use-chat, the ChatState of the hook (messages and isStreaming)
    sendCalls,      \* use-chat, the sendMessage() calls made so far, each with its response stream
    sessions,       \* useSessionManager, the session list
    activeId,       \* useSessionManager, activeSessionId
    requests,       \* useSessionManager, the calls awaiting the backend, and those that have resolved
    gen_at,         \* /api/analyze, where the generator _generate stands
    emitted,        \* /api/analyze, the events the generator has yielded so far
    raises          \* /api/analyze, for each call the generator makes the message of the exception it raises, or "" if it returns

decVars == <<dec_ids, dec_out>>
parseVars == <<snapshot, pending_texts, pending_stats, tweets, pc, boundaries>>
filterVars == <<all_tweets, username, user_tweets>>
patternsVars == <<cp_tweets, cp_t, days, hours, cp_pc>>
callsVars == <<call_snapshot, call_frame, call_out, call_overlap>>
accountVars == <<header, account>>
pageVars == <<activeSessionId, state, request, profilesBySession, fetching>>
chatVars == <<sessionId, sessionIdRef, localStorageId, isStreaming, sent>>
hookVars == <<analysisState, analyzeCalls>>
talkVars == <<chatState, sendCalls>>
mgrVars == <<sessions, activeId, requests>>
genVars == <<gen_at, emitted, raises>>
vars == <<decVars, parseVars, filterVars, patternsVars, callsVars, accountVars, pageVars, chatVars, hookVars, talkVars, mgrVars, genVars>>

\* the variables of the other operations, which an operation leaves alone
decOthers == <<parseVars, filterVars, patternsVars, callsVars, accountVars, pageVars, chatVars, hookVars, talkVars, mgrVars, genVars>>
parseOthers == <<decVars, filterVars, patternsVars, callsVars, accountVars, pageVars, chatVars, hookVars, talkVars, mgrVars, genVars>>
filterOthers == <<decVars, parseVars, patternsVars, callsVars, accountVars, pageVars, chatVars, hookVars, talkVars, mgrVars, genVars>>
patternsOthers == <<decVars, parseVars, filterVars, callsVars, accountVars, pageVars, chatVars, hookVars, talkVars, mgrVars, genVars>>
callsOthers == <<decVars, parseVars, filterVars, patternsVars, accountVars, pageVars, chatVars, hookVars, talkVars, mgrVars, genVars>>
accountOthers == <<decVars, parseVars, filterVars, patternsVars, callsVars, pageVars, chatVars, hookVars, talkVars, mgrVars, genVars>>
pageOthers == <<decVars, parseVars, filterVars, patternsVars, callsVars, accountVars, chatVars, hookVars, talkVars, mgrVars, genVars>>
chatOthers == <<decVars, parseVars, filterVars, patternsVars, callsVars, accountVars, pageVars, hookVars, talkVars, mgrVars, genVars>>
hookOthers == <<decVars, parseVars, filterVars, patternsVars, callsVars, accountVars, pageVars, chatVars, talkVars, mgrVars, genVars>>
talkOthers == <<decVars, parseVars, filterVars, patternsVars, callsVars, accountVars, pageVars, chatVars, hookVars, mgrVars, genVars>>
mgrOthers == <<decVars, parseVars, filterVars, patternsVars, callsVars, accountVars, pageVars, chatVars, hookVars, talkVars, genVars>>
genOthers == <<decVars, parseVars, filterVars, patternsVars, callsVars, accountVars, pageVars, chatVars, hookVars, talkVars, mgrVars>>

FilterIdle ==
    /\ all_tweets = <<>>
    /\ username = <<>>
    /\ user_tweets = [st |-> "pending"]

PatternsIdle ==
    /\ cp_tweets = <<>>
    /\ cp_t = 0
    /\ days = <<>>
    /\ hours = <<>>
    /\ cp_pc = "idle"

CallsIdle ==
    /\ call_snapshot = <<<<>>, <<>>>>
    /\ call_frame = <<>>
    /\ call_out = <<>>
    /\ call_overlap = FALSE

AccountIdle ==
    /\ header = <<>>
    /\ account = <<>>

PageIdle ==
    /\ activeSessionId = ""
    /\ state = <<>>
    /\ request = <<>>
    /\ profilesBySession = <<>>
    /\ fetching = {}

ChatIdle ==
    /\ sessionId = ""
    /\ sessionIdRef = ""
    /\ localStorageId = ""
    /\ isStreaming = FALSE
    /\ sent = <<>>

HookIdle ==
    /\ analysisState = "unmounted"
    /\ analyzeCalls = <<>>

TalkIdle ==
    /\ chatState = "unmounted"
    /\ sendCalls = <<>>

MgrIdle ==
    /\ sessions = <<>>
    /\ activeId = ""
    /\ requests = <<>>

GenIdle ==
    /\ gen_at = "idle"
    /\ emitted = <<>>
    /\ raises = <<>>

-----------------------------------------------------------------------------
(* Characters *)

Digit == {"0", "1", "2", "3", "4", "5", "6", "7", "8", "9"}

DigitVal(c) ==
    CASE c = "0" -> 0 [] c = "1" -> 1 [] c = "2" -> 2 [] c = "3" -> 3
      [] c = "4" -> 4 [] c = "5" -> 5 [] c = "6" -> 6 [] c = "7" -> 7
      [] c = "8" -> 8 [] c = "9" -> 9

IsDigits(s) == Len(s) > 0 /\ \A i \in 1..Len(s) : s[i] \in Digit

-----------------------------------------------------------------------------
(* Python int: naturals as decimal digits, most significant first, without *)
(* leading zeros (zero is <<0>>); integers as a sign and a magnitude.      *)

RECURSIVE StripZeros(_)
StripZeros(ds) ==
    IF Len(ds) > 1 /\ ds[1] = 0 THEN StripZeros(Tail(ds)) ELSE ds

NatZero == <<0>>

RECURSIVE NatOfInt(_)
NatOfInt(n) == IF n < 10 THEN <<n>> ELSE Append(NatOfInt(n \div 10), n % 10)

RECURSIVE LexLess(_, _)
LexLess(a, b) ==
    IF a = <<>> THEN FALSE
    ELSE IF a[1] # b[1] THEN a[1] < b[1]
    ELSE LexLess(Tail(a), Tail(b))

NatLess(a, b) == Len(a) < Len(b) \/ (Len(a) = Len(b) /\ LexLess(a, b))

NatLeq(a, b) == a = b \/ NatLess(a, b)

PadTo(ds, n) ==
    [i \in 1..n |-> IF i <= n - Len(ds) THEN 0 ELSE ds[i - (n - Len(ds))]]

RECURSIVE AddFrom(_, _, _, _)
AddFrom(a, b, i, carry) ==
    IF i = 0 THEN (IF carry = 0 THEN <<>> ELSE <<carry>>)
    ELSE LET s == a[i] + b[i] + carry
         IN  Append(AddFrom(a, b, i - 1, s \div 10), s % 10)

NatAdd(a, b) ==
    LET n == IF Len(a) > Len(b) THEN Len(a) ELSE Len(b)
    IN  StripZeros(AddFrom(PadTo(a, n), PadTo(b, n), n, 0))

RECURSIVE SubFrom(_, _, _, _)
SubFrom(a, b, i, borrow) ==
    IF i = 0 THEN <<>>
    ELSE LET d == a[i] - b[i] - borrow
         IN  Append(SubFrom(a, b, i - 1, IF d < 0 THEN 1 ELSE 0),
                    IF d < 0 THEN d + 10 ELSE d)

\* a - b for a >= b
NatSub(a, b) ==
    LET n == Len(a) IN StripZeros(SubFrom(a, PadTo(b, n), n, 0))

RECURSIVE DivFrom(_, _, _, _)
DivFrom(ds, d, i, rem) ==
    IF i > Len(ds) THEN <<>>
    ELSE LET cur == rem * 10 + ds[i]
         IN  <<cur \div d>> \o DivFrom(ds, d, i + 1, cur % d)

\* floor(ds / d) for a divisor small enough that 10 * d fits a machine word
NatDiv(ds, d) == StripZeros(DivFrom(ds, d, 1, 0))

RECURSIVE MulFrom(_, _, _, _)
MulFrom(ds, m, i, carry) ==
    IF i = 0 THEN (IF carry = 0 THEN <<>> ELSE NatOfInt(carry))
    ELSE LET p == ds[i] * m + carry
         IN  Append(MulFrom(ds, m, i - 1, p \div 10), p % 10)

NatMul(ds, m) == StripZeros(MulFrom(ds, m, Len(ds), 0))

IntOf(neg, mag) == [neg |-> neg /\ mag # NatZero, mag |-> mag]

IntZero == IntOf(FALSE, NatZero)

IntAdd(x, y) ==
    IF x.neg = y.neg THEN IntOf(x.neg, NatAdd(x.mag, y.mag))
    ELSE IF NatLeq(y.mag, x.mag) THEN IntOf(x.neg, NatSub(x.mag, y.mag))
    ELSE IntOf(y.neg, NatSub(y.mag, x.mag))

IntLeq(x, y) ==
    IF x.neg /\ ~y.neg THEN TRUE
    ELSE IF ~x.neg /\ y.neg THEN FALSE
    ELSE IF x.neg THEN NatLeq(y.mag, x.mag)
    ELSE NatLeq(x.mag, y.mag)

IntLess(x, y) == x # y /\ IntLeq(x, y)

\* x >> k: floor division by 2^k, also for a negative x
IntShr(x, k) ==
    IF ~x.neg THEN IntOf(FALSE, NatDiv(x.mag, 2^k))
    ELSE IntOf(TRUE, NatDiv(NatAdd(x.mag, NatOfInt(2^k - 1)), 2^k))

-----------------------------------------------------------------------------
(* _snowflake_to_ms *)

Shift == 22

TWITTER_EPOCH_MS == IntOf(FALSE, <<1, 2, 8, 8, 8, 3, 4, 9, 7, 4, 6, 5, 7>>)

\* int(s) for a string over digits, letters and the signs: an optional sign
\* and at least one digit, or ValueError.  (Blanks and underscores, which
\* int() also accepts in places, are not in the alphabet of the ids below.)
PyInt(s) ==
    IF IsDigits(s)
    THEN [exc |-> "none", val |-> IntOf(FALSE, StripZeros([i \in 1..Len(s) |-> DigitVal(s[i])]))]
    ELSE IF Len(s) >= 2 /\ s[1] \in {"-", "+"} /\ IsDigits(Tail(s))
    THEN [exc |-> "none",
          val |-> IntOf(s[1] = "-", StripZeros([i \in 1..Len(s) - 1 |-> DigitVal(s[i + 1])]))]
    ELSE [exc |-> "ValueError", val |-> IntZero]

Returned(v) == [st |-> "returned", val |-> v]

Raised(e) == [st |-> "raised", exc |-> e]

Pending == [st |-> "pending"]

\* A faulty variant: the operands of the sum mistaken for a difference.
snowflake_to_ms_Negated(tweet_id) ==
    LET r == PyInt(tweet_id)
    IN  IF r.exc = "none"
        THEN LET q == IntShr(r.val, Shift)
             IN  Returned(IntAdd(IntOf(~q.neg, q.mag), TWITTER_EPOCH_MS))
        ELSE IF r.exc \in {"ValueError", "OverflowError"} THEN Returned(IntZero)
        ELSE Raised(r.exc)

\* A faulty variant: the epoch offset forgotten.
snowflake_to_ms_NoEpoch(tweet_id) ==
    LET r == PyInt(tweet_id)
    IN  IF r.exc = "none"
        THEN Returned(IntShr(r.val, Shift))
        ELSE IF r.exc \in {"ValueError", "OverflowError"} THEN Returned(IntZero)
        ELSE Raised(r.exc)

\* try: return (int(tweet_id) >> 22) + _TWITTER_EPOCH_MS
\* except (ValueError, OverflowError): return 0
snowflake_to_ms(tweet_id) ==
    LET r == PyInt(tweet_id)
    IN  IF r.exc = "none"
        THEN Returned(IntAdd(IntShr(r.val, Shift), TWITTER_EPOCH_MS))
        ELSE IF r.exc \in {"ValueError", "OverflowError"} THEN Returned(IntZero)
        ELSE Raised(r.exc)

\* The ids the decoder is called with: around the 22-bit boundary, with a
\* leading zero, real snowflakes, around 2^63 and 2^64, and non-numeric ones.
IdSet ==
    { <<"0">>, <<"1">>, <<"0", "0", "7">>,
      <<"4", "1", "9", "4", "3", "0", "3">>,
      <<"4", "1", "9", "4", "3", "0", "4">>,
      <<"8", "3", "8", "8", "6", "0", "8">>,
      <<"1", "7", "5", "0", "0", "0", "0", "0", "0", "0", "0", "0", "0", "0", "0", "0", "0", "0", "1">>,
      <<"1", "7", "5", "0", "0", "0", "0", "0", "0", "0", "0", "0", "0", "0", "0", "0", "0", "0", "2">>,
      <<"9", "2", "2", "3", "3", "7", "2", "0", "3", "6", "8", "5", "4", "7", "7", "5", "8", "0", "8">>,
      <<"1", "8", "4", "4", "6", "7", "4", "4", "0", "7", "3", "7", "0", "9", "5", "5", "1", "6", "1", "5">>,
      <<"1", "8", "4", "4", "6", "7", "4", "4", "0", "7", "3", "7", "0", "9", "5", "5", "1", "6", "1", "6">>,
      <<"3", "6", "8", "9", "3", "4", "8", "8", "1", "4", "7", "4", "1", "9", "1", "0", "3", "2", "3", "2">>,
      <<"n", "o", "t", "-", "a", "-", "n", "u", "m", "b", "e", "r">>,
      <<>>, <<"-", "1">>, <<"1", "2", "a">> }

ParseIdle ==
    /\ snapshot = <<>>
    /\ pending_texts = <<>>
    /\ pending_stats = <<>>
    /\ tweets = <<>>
    /\ pc = "idle"
    /\ boundaries = <<>>

DecIdle ==
    /\ dec_ids = <<<<>>, <<>>>>
    /\ dec_out = <<Pending, Pending>>

decOthersIdle == ParseIdle /\ FilterIdle /\ PatternsIdle /\ CallsIdle /\ AccountIdle /\ PageIdle /\ ChatIdle /\ HookIdle /\ TalkIdle /\ MgrIdle /\ GenIdle
parseOthersIdle == DecIdle /\ FilterIdle /\ PatternsIdle /\ CallsIdle /\ AccountIdle /\ PageIdle /\ ChatIdle /\ HookIdle /\ TalkIdle /\ MgrIdle /\ GenIdle
filterOthersIdle == DecIdle /\ ParseIdle /\ PatternsIdle /\ CallsIdle /\ AccountIdle /\ PageIdle /\ ChatIdle /\ HookIdle /\ TalkIdle /\ MgrIdle /\ GenIdle
patternsOthersIdle == FilterIdle /\ ParseIdle /\ DecIdle /\ CallsIdle /\ AccountIdle /\ PageIdle /\ ChatIdle /\ HookIdle /\ TalkIdle /\ MgrIdle /\ GenIdle
callsOthersIdle == FilterIdle /\ PatternsIdle /\ ParseIdle /\ DecIdle /\ AccountIdle /\ PageIdle /\ ChatIdle /\ HookIdle /\ TalkIdle /\ MgrIdle /\ GenIdle
accountOthersIdle == FilterIdle /\ PatternsIdle /\ CallsIdle /\ ParseIdle /\ DecIdle /\ PageIdle /\ ChatIdle /\ HookIdle /\ TalkIdle /\ MgrIdle /\ GenIdle
pageOthersIdle == FilterIdle /\ PatternsIdle /\ CallsIdle /\ AccountIdle /\ ParseIdle /\ DecIdle /\ ChatIdle /\ HookIdle /\ TalkIdle /\ MgrIdle /\ GenIdle
chatOthersIdle == FilterIdle /\ PatternsIdle /\ CallsIdle /\ AccountIdle /\ PageIdle /\ ParseIdle /\ DecIdle /\ HookIdle /\ TalkIdle /\ MgrIdle /\ GenIdle
hookOthersIdle == FilterIdle /\ PatternsIdle /\ CallsIdle /\ AccountIdle /\ PageIdle /\ ChatIdle /\ ParseIdle /\ DecIdle /\ TalkIdle /\ MgrIdle /\ GenIdle
talkOthersIdle == FilterIdle /\ PatternsIdle /\ CallsIdle /\ AccountIdle /\ PageIdle /\ ChatIdle /\ HookIdle /\ ParseIdle /\ DecIdle /\ MgrIdle /\ GenIdle
mgrOthersIdle == FilterIdle /\ PatternsIdle /\ CallsIdle /\ AccountIdle /\ PageIdle /\ ChatIdle /\ HookIdle /\ TalkIdle /\ ParseIdle /\ DecIdle /\ GenIdle
genOthersIdle == FilterIdle /\ PatternsIdle /\ CallsIdle /\ AccountIdle /\ PageIdle /\ ChatIdle /\ HookIdle /\ TalkIdle /\ MgrIdle /\ ParseIdle /\ DecIdle

DecInit ==
    /\ dec_ids \in IdSet \X IdSet
    /\ dec_out = <<Pending, Pending>>
    /\ decOthersIdle

\* one call _snowflake_to_ms(dec_ids[k])
Decode(k) ==
    /\ dec_out[k] = Pending
    /\ dec_out' = [dec_out EXCEPT ![k] = snowflake_to_ms(dec_ids[k])]
    /\ UNCHANGED <<dec_ids, decOthers>>

DecNext == \E k \in {1, 2} : Decode(k)

SpecDecode == DecInit /\ [][DecNext]_vars

-----------------------------------------------------------------------------
(* extract_tweet_data: string helpers *)

Space == {" "}

Quote == "\""

\* \w: the letter tokens of the snapshots below and the digits
WordTok == {"kol", "hi", "yo", "status"} \cup Digit

\* [\d,]
NumTok == Digit \cup {","}

RECURSIVE LStripSet(_, _)
LStripSet(s, S) ==
    IF s # <<>> /\ s[1] \in S THEN LStripSet(Tail(s), S) ELSE s

RECURSIVE RStripSet(_, _)
RStripSet(s, S) ==
    IF s # <<>> /\ s[Len(s)] \in S THEN RStripSet(SubSeq(s, 1, Len(s) - 1), S) ELSE s

\* str.strip(chars)
StripSet(s, S) == RStripSet(LStripSet(s, S), S)

\* str.strip()
PyStrip(s) == StripSet(s, Space)

\* the index after the longest run of tokens of S that starts at k
RECURSIVE RunEnd(_, _, _)
RunEnd(s, k, S) ==
    IF k <= Len(s) /\ s[k] \in S THEN RunEnd(s, k + 1, S) ELSE k

\* sep.join(parts) for sep = " "
RECURSIVE Join(_)
Join(parts) ==
    IF parts = <<>> THEN <<>>
    ELSE IF Len(parts) = 1 THEN parts[1]
    ELSE parts[1] \o <<" ">> \o Join(Tail(parts))

\* re.findall(r'[\d,]+', s), scanning from token k
RECURSIVE FindAllFrom(_, _)
FindAllFrom(s, k) ==
    IF k > Len(s) THEN <<>>
    ELSE IF s[k] \in NumTok
         THEN LET e == RunEnd(s, k, NumTok)
              IN  <<SubSeq(s, k, e - 1)>> \o FindAllFrom(s, e)
         ELSE FindAllFrom(s, k + 1)

FindAll(s) == FindAllFrom(s, 1)

\* n.replace(',', '')
RemoveCommas(n) == SelectSeq(n, LAMBDA c : c # ",")

\* re.fullmatch(r'[\d,\s]+', content)
IsStatsContent(content) ==
    /\ content # <<>>
    /\ \A i \in 1..Len(content) : content[i] \in NumTok \cup Space

-----------------------------------------------------------------------------
(* extract_tweet_data: id_pattern *)

\* A faulty variant: the fragment made optional, /url: /\w+/status/(\d+)(?:#m)?
id_pattern_at_OptionalFragment(line, i) ==
    LET u  == i + 2
        ue == RunEnd(line, u, WordTok)
        d  == ue + 1
        de == RunEnd(line, d, Digit)
    IN  [ok |-> /\ i + 1 <= Len(line)
                /\ line[i] = "/url: "
                /\ line[i + 1] = "/"
                /\ ue > u
                /\ ue <= Len(line)
                /\ line[ue] = "/status/"
                /\ de > d,
         id |-> SubSeq(line, d, de - 1)]

\* A faulty variant: the "/url: " prefix dropped, /\w+/status/(\d+)#m
id_pattern_at_NoUrlPrefix(line, i) ==
    LET u  == i + 1
        ue == RunEnd(line, u, WordTok)
        d  == ue + 1
        de == RunEnd(line, d, Digit)
    IN  [ok |-> /\ i <= Len(line)
                /\ line[i] = "/"
                /\ ue > u
                /\ ue <= Len(line)
                /\ line[ue] = "/status/"
                /\ de > d
                /\ de <= Len(line)
                /\ line[de] = "#m",
         id |-> SubSeq(line, d, de - 1)]

\* /url: /\w+/status/(\d+)#m matched with its first token at i
id_pattern_at(line, i) ==
    LET u  == i + 2
        ue == RunEnd(line, u, WordTok)
        d  == ue + 1
        de == RunEnd(line, d, Digit)
    IN  [ok |-> /\ i + 1 <= Len(line)
                /\ line[i] = "/url: "
                /\ line[i + 1] = "/"
                /\ ue > u
                /\ ue <= Len(line)
                /\ line[ue] = "/status/"
                /\ de > d
                /\ de <= Len(line)
                /\ line[de] = "#m",
         id |-> SubSeq(line, d, de - 1)]

\* id_pattern.search(line): the leftmost match, group(1)
id_pattern_search(line) ==
    LET hits == {i \in 1..Len(line) : id_pattern_at(line, i).ok}
    IN  IF hits = {} THEN [found |-> FALSE, id |-> <<>>]
        ELSE LET first == CHOOSE i \in hits : \A j \in hits : i <= j
             IN  [found |-> TRUE, id |-> id_pattern_at(line, first).id]

-----------------------------------------------------------------------------
(* extract_tweet_data: the engagement numbers *)

\* A faulty variant: of four or more counters the last three are taken.
Engagement_LastThree(nums_int) ==
    LET n == Len(nums_int)
    IN  IF n >= 3
        THEN [replies |-> nums_int[n - 2], retweets |-> nums_int[n - 1], likes |-> nums_int[n]]
        ELSE IF n = 2
        THEN [replies |-> IntZero, retweets |-> nums_int[1], likes |-> nums_int[2]]
        ELSE IF n = 1
        THEN [replies |-> IntZero, retweets |-> IntZero, likes |-> nums_int[1]]
        ELSE [replies |-> IntZero, retweets |-> IntZero, likes |-> IntZero]

\* A faulty variant: two numbers read as (replies, retweets) instead of (retweets, likes).
Engagement_TwoFromTheLeft(nums_int) ==
    IF Len(nums_int) >= 3
    THEN [replies |-> nums_int[1], retweets |-> nums_int[2], likes |-> nums_int[3]]
    ELSE IF Len(nums_int) = 2
    THEN [replies |-> nums_int[1], retweets |-> nums_int[2], likes |-> IntZero]
    ELSE IF Len(nums_int) = 1
    THEN [replies |-> IntZero, retweets |-> IntZero, likes |-> nums_int[1]]
    ELSE [replies |-> IntZero, retweets |-> IntZero, likes |-> IntZero]

\* likes = retweets = replies = 0, then the if / elif chain on len(nums_int)
Engagement(nums_int) ==
    IF Len(nums_int) >= 3
    THEN [replies |-> nums_int[1], retweets |-> nums_int[2], likes |-> nums_int[3]]
    ELSE IF Len(nums_int) = 2
    THEN [replies |-> IntZero, retweets |-> nums_int[1], likes |-> nums_int[2]]
    ELSE IF Len(nums_int) = 1
    THEN [replies |-> IntZero, retweets |-> IntZero, likes |-> nums_int[1]]
    ELSE [replies |-> IntZero, retweets |-> IntZero, likes |-> IntZero]

\* if pending_stats: nums = re.findall(...); nums_int = [int(n.replace(',', '')) for n in nums]
\* exc is the exception int() raises on the first token it cannot read.
ParseStats(stats) ==
    IF stats = <<>> THEN [exc |-> "none", nums_int |-> <<>>]
    ELSE LET nums == FindAll(stats)
             read == [i \in 1..Len(nums) |-> PyInt(RemoveCommas(nums[i]))]
             bad  == {i \in 1..Len(nums) : read[i].exc # "none"}
         IN  IF bad = {}
             THEN [exc |-> "none", nums_int |-> [i \in 1..Len(nums) |-> read[i].val]]
             ELSE [exc |-> read[CHOOSE i \in bad : \A j \in bad : i <= j].exc,
                   nums_int |-> <<>>]

-----------------------------------------------------------------------------
(* The snapshots *)

MaxLines == 4

\* - text: "<content>"
TextLineOf(content) == <<"- text:", " ", Quote>> \o content \o <<Quote>>

\*   - /url: /kol/status/<id><fragment>
UrlLineOf(id, fragment) ==
    <<" ", " ", "- ", "/url: ", "/", "kol", "/status/">> \o id \o fragment

IdA == <<"1", "7", "5", "0", "0", "0", "0", "0", "0", "0", "0", "0", "0", "0", "0", "0", "0", "0", "1">>

IdB == <<"4", "1", "9", "4", "3", "0", "4">>

IdC == <<"9">>

IdD == <<"8">>

LText1 == TextLineOf(<<"hi">>)

LText2 == TextLineOf(<<" ", "yo">>)

LStats3 == TextLineOf(<<"3", " ", " ", "1", "2", " ", " ", "8", "4", "7">>)

LStats2 == TextLineOf(<<"1", ",", "2", "3", "4", " ", " ", "5", "6">>)

LStats1 == TextLineOf(<<"7">>)

LStats0 == TextLineOf(<<" ", " ">>)

LStats4 == TextLineOf(<<"3", " ", "1", "2", " ", "8", "4", "7", " ", "4", ",", "2", "9", "1">>)

\* a token made only of a separator
LStatsBad == TextLineOf(<<"3", " ", ",", " ", "5">>)

LUrlA == UrlLineOf(IdA, <<"#m">>)

LUrlB == UrlLineOf(IdB, <<"#m">>)

\* a permalink without the fragment marker
LUrlNoFrag == UrlLineOf(IdC, <<>>)

\* a navigation anchor: permalink-shaped, without the "/url: " prefix
LToc == <<"- link", " ", Quote, "/", "kol", "/status/">> \o IdD \o <<"#m", Quote>>

LineSet ==
    { LText1, LText2, LStats3, LStats2, LStats1, LStats0, LStats4, LStatsBad,
      LUrlA, LUrlB, LUrlNoFrag, LToc }

-----------------------------------------------------------------------------
(* extract_tweet_data: the loop.  The loop never looks ahead, so the lines *)
(* of the snapshot are drawn one at a time, as the loop reaches them; the  *)
(* snapshot ends wherever Return is taken.                                 *)

\* lines = [l.strip() for l in snapshot.splitlines()]
Stripped(l) == PyStrip(l)

\* for line in lines: the loop has one more line to read
AtLine == pc = "loop" /\ Len(snapshot) < MaxLines

\* content = line.removeprefix("- text:").strip().strip('"')
Content(line) == StripSet(PyStrip(Tail(line)), {Quote})

\* line.startswith("- text:")
IsTextLine(line) == line # <<>> /\ line[1] = "- text:"

\* What one iteration computes from its line alone, tabulated once per line:
\* the stripped line, id_pattern.search(line), _snowflake_to_ms(tweet_id),
\* the "- text:" test, content and the fullmatch test.
Scanned ==
    [l \in LineSet |->
        LET line     == Stripped(l)
            id_match == id_pattern_search(line)
        IN  [line     |-> line,
             id_match |-> id_match,
             ms       |-> IF id_match.found THEN snowflake_to_ms(id_match.id) ELSE Pending,
             is_text  |-> IsTextLine(line),
             content  |-> IF IsTextLine(line) THEN Content(line) ELSE <<>>,
             is_stats |-> IsTextLine(line) /\ IsStatsContent(Content(line))]]

ParseInit ==
    /\ snapshot = <<>>
    /\ pending_texts = <<>>
    /\ pending_stats = <<>>
    /\ tweets = <<>>
    /\ pc = "loop"
    /\ boundaries = <<>>
    /\ parseOthersIdle

\* A faulty variant: pending_texts is not reset after the append.
AppendTweet_KeepsTexts ==
    /\ AtLine
    /\ \E l \in LineSet :
         LET id_match == Scanned[l].id_match
             stats    == ParseStats(pending_stats)
             text     == PyStrip(Join(pending_texts))
             eng      == Engagement(stats.nums_int)
         IN  /\ id_match.found
             /\ stats.exc = "none"
             /\ Scanned[l].ms.st = "returned"
             /\ snapshot' = Append(snapshot, l)
             /\ tweets' = Append(tweets,
                    [id |-> id_match.id, text |-> text, timestamp_ms |-> Scanned[l].ms.val,
                     likes |-> eng.likes, retweets |-> eng.retweets,
                     replies |-> eng.replies])
             /\ boundaries' = Append(boundaries,
                    [line |-> Len(snapshot) + 1, texts |-> pending_texts,
                     stats |-> pending_stats])
    /\ pending_stats' = <<>>
    /\ UNCHANGED <<pending_texts, pc, parseOthers>>

\* if id_match: ... tweets.append({...}); pending_texts = []; pending_stats = None
AppendTweet ==
    /\ AtLine
    /\ \E l \in LineSet :
         LET id_match == Scanned[l].id_match
             tweet_id == id_match.id
             stats    == ParseStats(pending_stats)
             ms       == Scanned[l].ms
             text     == PyStrip(Join(pending_texts))
             eng      == Engagement(stats.nums_int)
         IN  /\ id_match.found
             /\ stats.exc = "none"
             /\ ms.st = "returned"
             /\ snapshot' = Append(snapshot, l)
             /\ IF text # <<>> \/ tweet_id # <<>>
                THEN /\ tweets' = Append(tweets,
                           [id |-> tweet_id, text |-> text, timestamp_ms |-> ms.val,
                            likes |-> eng.likes, retweets |-> eng.retweets,
                            replies |-> eng.replies])
                     /\ boundaries' = Append(boundaries,
                           [line |-> Len(snapshot) + 1, texts |-> pending_texts,
                            stats |-> pending_stats])
                ELSE UNCHANGED <<tweets, boundaries>>
    /\ pending_texts' = <<>>
    /\ pending_stats' = <<>>
    /\ UNCHANGED <<pc, parseOthers>>

\* if id_match: ... int('') or an exception _snowflake_to_ms lets through: the
\* call ends with the exception
RaiseAtBoundary ==
    /\ AtLine
    /\ \E l \in LineSet :
         LET id_match == Scanned[l].id_match
         IN  /\ id_match.found
             /\ \/ ParseStats(pending_stats).exc # "none"
                \/ Scanned[l].ms.st = "raised"
             /\ snapshot' = Append(snapshot, l)
    /\ pc' = "raised"
    /\ UNCHANGED <<pending_texts, pending_stats, tweets, boundaries, parseOthers>>

\* A faulty variant: a stats line is kept only when none is pending yet.
SetStats_KeepFirst ==
    /\ AtLine
    /\ \E l \in LineSet :
         /\ ~Scanned[l].id_match.found
         /\ Scanned[l].is_text
         /\ Scanned[l].is_stats
         /\ snapshot' = Append(snapshot, l)
         /\ pending_stats' = IF pending_stats = <<>> THEN Scanned[l].content
                             ELSE pending_stats
    /\ UNCHANGED <<pending_texts, tweets, pc, boundaries, parseOthers>>

\* if line.startswith("- text:"): ... if re.fullmatch(...): pending_stats = content
SetStats ==
    /\ AtLine
    /\ \E l \in LineSet :
         /\ ~Scanned[l].id_match.found
         /\ Scanned[l].is_text
         /\ Scanned[l].is_stats
         /\ snapshot' = Append(snapshot, l)
         /\ pending_stats' = Scanned[l].content
    /\ UNCHANGED <<pending_texts, tweets, pc, boundaries, parseOthers>>

\* else: pending_texts.append(content)
AppendText ==
    /\ AtLine
    /\ \E l \in LineSet :
         /\ ~Scanned[l].id_match.found
         /\ Scanned[l].is_text
         /\ ~Scanned[l].is_stats
         /\ snapshot' = Append(snapshot, l)
         /\ pending_texts' = Append(pending_texts, Scanned[l].content)
    /\ UNCHANGED <<pending_stats, tweets, pc, boundaries, parseOthers>>

\* a line that is neither: the loop goes on
SkipLine ==
    /\ AtLine
    /\ \E l \in LineSet :
         /\ ~Scanned[l].id_match.found
         /\ ~Scanned[l].is_text
         /\ snapshot' = Append(snapshot, l)
    /\ UNCHANGED <<pending_texts, pending_stats, tweets, pc, boundaries, parseOthers>>

\* the snapshot has no further line: return tweets
Return ==
    /\ pc = "loop"
    /\ pc' = "done"
    /\ UNCHANGED <<snapshot, pending_texts, pending_stats, tweets, boundaries, parseOthers>>

Next ==
    \/ AppendTweet
    \/ RaiseAtBoundary
    \/ SetStats
    \/ AppendText
    \/ SkipLine
    \/ Return

Spec == ParseInit /\ [][Next]_vars

-----------------------------------------------------------------------------
(* What the claims speak of *)

\* the lines whose iteration has completed
Processed ==
    {j \in 1..Len(snapshot) : pc = "raised" => j < Len(snapshot)}

\* the lines at which a tweet was appended
BoundaryLines == {boundaries[k].line : k \in 1..Len(boundaries)}

\* /<username>/status/<digits> with its "/" at token i; next is the index after the digits
PermalinkAt(line, i) ==
    LET ue == RunEnd(line, i + 1, WordTok)
        de == RunEnd(line, ue + 1, Digit)
    IN  [ok |-> /\ i <= Len(line)
                /\ line[i] = "/"
                /\ ue > i + 1
                /\ ue <= Len(line)
                /\ line[ue] = "/status/"
                /\ de > ue + 1,
         digits |-> SubSeq(line, ue + 1, de - 1),
         next |-> de]

\* the shape of every line of LineSet, tabulated once:
\*   permalink  some /<username>/status/<digits> occurs in the line
\*   url_frag   one occurs after "/url: " and is followed by #m
\*   url_bare   one occurs after "/url: " and is not followed by #m
\*   toc        a navigation anchor: a permalink with #m in a line that is no
\*              text node and carries no "/url: " prefix
\*   digits     the digit run of the first permalink of the line
Shape ==
    [l \in LineSet |->
        LET line == PyStrip(l)
            at   == {i \in 1..Len(line) : PermalinkAt(line, i).ok}
            frag(i) == LET n == PermalinkAt(line, i).next
                       IN  n <= Len(line) /\ line[n] = "#m"
            url(i)  == i > 1 /\ line[i - 1] = "/url: "
        IN  [permalink |-> at # {},
             url_frag  |-> \E i \in at : url(i) /\ frag(i),
             url_bare  |-> \E i \in at : url(i) /\ ~frag(i),
             toc       |-> /\ \E i \in at : frag(i)
                           /\ \A i \in at : ~url(i)
                           /\ line[1] # "- text:",
             digits    |-> IF at = {} THEN <<>>
                           ELSE PermalinkAt(line, CHOOSE i \in at : \A j \in at : i <= j).digits]]

\* the value a digit-and-comma token spells, separators removed
TokenValue(tok) == PyInt(RemoveCommas(tok)).val

IntLit(n) == IntOf(FALSE, NatOfInt(n))

-----------------------------------------------------------------------------
(* C3  decode_timestamp never raises and returns 0 for the id "0", for      *)
(* every non-numeric string and for every id outside the unsigned 64-bit   *)
(* range.                                                                  *)

U64Max == <<1, 8, 4, 4, 6, 7, 4, 4, 0, 7, 3, 7, 0, 9, 5, 5, 1, 6, 1, 5>>

NonNumeric(s) == PyInt(s).exc # "none"

OutOfU64(s) ==
    /\ PyInt(s).exc = "none"
    /\ PyInt(s).val.neg \/ NatLess(U64Max, PyInt(s).val.mag)

\* C3 as claimed: every completed call on "0", on a non-numeric string or on
\* an id outside 0..2^64-1 returned 0.
C3_ZeroForInvalid ==
    \A k \in {1, 2} :
        (/\ dec_out[k].st # "pending"
         /\ dec_ids[k] = <<"0">> \/ NonNumeric(dec_ids[k]) \/ OutOfU64(dec_ids[k]))
        => dec_out[k] = Returned(IntZero)

-----------------------------------------------------------------------------
(* C4  decode_timestamp is monotonic in the numeric value of id: for valid *)
(* unsigned integer ids id1 < id2, decode(id1) <= decode(id2).             *)

\* C4: whenever both calls have returned, on two strings of digits, the
\* order of the results follows the order of the ids' values.
C4_Monotonic ==
    \A a, b \in {1, 2} :
        (/\ dec_out[a].st # "pending"
         /\ dec_out[b].st # "pending"
         /\ IsDigits(dec_ids[a])
         /\ IsDigits(dec_ids[b])
         /\ NatLess(PyInt(dec_ids[a]).val.mag, PyInt(dec_ids[b]).val.mag))
        => /\ dec_out[a].st = "returned"
           /\ dec_out[b].st = "returned"
           /\ IntLeq(dec_out[a].val, dec_out[b].val)

\* two ids on either side of a 22-bit boundary, decoded to successive milliseconds
C4_Witness ==
    /\ dec_ids = << <<"4", "1", "9", "4", "3", "0", "3">>, <<"4", "1", "9", "4", "3", "0", "4">> >>
    /\ dec_out[1].st = "returned"
    /\ dec_out[2].st = "returned"
    /\ IntLess(dec_out[1].val, dec_out[2].val)

-----------------------------------------------------------------------------
(* C1  parse_posts emits exactly one Post per genuine content permalink    *)
(* line, in input order: the output is as long as the number of distinct   *)
(* genuine content permalinks, and the i-th Post's id is the digit run of  *)
(* the i-th permalink.  (A genuine content permalink line is a line the    *)
(* boundary pattern matches.)                                              *)

\* the lines of the snapshot the boundary pattern matches
GenuineLines == {j \in 1..Len(snapshot) : Scanned[snapshot[j]].id_match.found}

\* C1 as claimed: on return the list is as long as the set of distinct
\* permalinks, holds one Post per permalink line, and lists the ids in the
\* order of the lines.
C1_OnePostPerDistinctPermalink ==
    pc = "done" =>
        /\ Len(tweets) = Cardinality({Shape[snapshot[j]].digits : j \in GenuineLines})
        /\ Len(tweets) = Cardinality(GenuineLines)
        /\ \A i \in 1..Len(tweets) :
              /\ boundaries[i].line \in GenuineLines
              /\ Cardinality({j \in GenuineLines : j <= boundaries[i].line}) = i
              /\ tweets[i].id = Shape[snapshot[boundaries[i].line]].digits

-----------------------------------------------------------------------------
(* C2  At a post boundary the digit-group tokens of the pending stats      *)
(* line, left to right with separators removed, are mapped by count:       *)
(* three give (replies, retweets, likes); two give (retweets, likes);      *)
(* one gives likes; none, or no stats line, gives zeros.                   *)

\* C2: every appended tweet carries the counters its stats line spells.
C2_MappedByCount ==
    \A k \in 1..Len(tweets) :
        LET toks == FindAll(boundaries[k].stats)
            t    == tweets[k]
        IN  /\ Len(toks) = 3 =>
                 /\ t.replies = TokenValue(toks[1])
                 /\ t.retweets = TokenValue(toks[2])
                 /\ t.likes = TokenValue(toks[3])
            /\ Len(toks) = 2 =>
                 /\ t.replies = IntZero
                 /\ t.retweets = TokenValue(toks[1])
                 /\ t.likes = TokenValue(toks[2])
            /\ Len(toks) = 1 =>
                 /\ t.replies = IntZero
                 /\ t.retweets = IntZero
                 /\ t.likes = TokenValue(toks[1])
            /\ Len(toks) = 0 =>
                 /\ t.replies = IntZero
                 /\ t.retweets = IntZero
                 /\ t.likes = IntZero

\* the stats line "1,234  56" read as retweets = 1234, likes = 56, replies = 0
C2_Witness ==
    \E k \in 1..Len(tweets) :
        /\ boundaries[k].stats = <<"1", ",", "2", "3", "4", " ", " ", "5", "6">>
        /\ tweets[k].retweets = IntLit(1234)
        /\ tweets[k].likes = IntLit(56)
        /\ tweets[k].replies = IntLit(0)

-----------------------------------------------------------------------------
(* C5  Every Post carries id = the exact digit run of its permalink and    *)
(* timestamp_ms = (id >> 22) + 1288834974657, the field never missing.     *)

\* ms = floor(id / 2^22) + 1288834974657, stated by multiplication
IsDecodedFrom(ms, id) ==
    LET n == PyInt(id).val.mag
        q == IntAdd(ms, IntOf(TRUE, <<1, 2, 8, 8, 8, 3, 4, 9, 7, 4, 6, 5, 7>>))
    IN  /\ IsDigits(id)
        /\ ~q.neg
        /\ NatLeq(NatMul(q.mag, 2^22), n)
        /\ NatLess(n, NatMul(NatAdd(q.mag, <<1>>), 2^22))

-----------------------------------------------------------------------------
(* C6  A line containing a permalink /<username>/status/<digits> is a post *)
(* boundary whether or not the trailing fragment marker #m is present.     *)

-----------------------------------------------------------------------------
(* C7  A stats line with a malformed numeric token (one made only of       *)
(* separators) never makes parse_posts fail: the token is skipped,         *)
(* contributes 0, and the Post of the block is still emitted.              *)

\* C7 as claimed: the call never ends with an exception, and every
\* processed boundary line has its Post.
C7_MalformedTokenSkipped ==
    /\ pc # "raised"
    /\ \A j \in 1..Len(snapshot) :
          Scanned[snapshot[j]].id_match.found => j \in BoundaryLines

-----------------------------------------------------------------------------
(* C8  If the primary pass yields no Post on a snapshot with at least one  *)
(* permalink line, a looser fallback pass treats every permalink line as   *)
(* a boundary: the empty list is returned only when the snapshot holds no  *)
(* permalink line at all.                                                  *)

\* C8 as claimed: an empty result means a snapshot without any permalink line.
C8_EmptyOnlyWithoutPermalink ==
    (pc = "done" /\ tweets = <<>>)
    => \A j \in 1..Len(snapshot) : ~Shape[snapshot[j]].permalink

-----------------------------------------------------------------------------
(* C9  A permalink-shaped navigation anchor (lacking the expected prefix   *)
(* structure) emits no Post and leaves pending_text_lines and              *)
(* pending_stats_line unchanged, so the next genuine permalink's Post      *)
(* still receives the text and stats accumulated before the anchor.        *)

\* the boundary line before boundary k (0 before the first)
PrevBoundary(k) == IF k = 1 THEN 0 ELSE boundaries[k - 1].line

\* the lines strictly between boundary k and the one before it
Block(k) == {j \in 1..Len(snapshot) : PrevBoundary(k) < j /\ j < boundaries[k].line}

\* the contents of the text lines among the lines of J, in order
RECURSIVE TextsFrom(_, _)
TextsFrom(j, hi) ==
    IF j >= hi THEN <<>>
    ELSE IF Scanned[snapshot[j]].is_text /\ ~Scanned[snapshot[j]].is_stats
         THEN <<Scanned[snapshot[j]].content>> \o TextsFrom(j + 1, hi)
         ELSE TextsFrom(j + 1, hi)

\* the content of the last stats line among lines lo+1 .. hi-1 (empty: none)
LastStats(lo, hi) ==
    LET S == {j \in lo + 1 .. hi - 1 : Scanned[snapshot[j]].is_stats}
    IN  IF S = {} THEN <<>>
        ELSE Scanned[snapshot[CHOOSE j \in S : \A i \in S : i <= j]].content

\* C9: no Post is appended at an anchor, and a Post whose block holds an
\* anchor is built from all the text and the last stats line of the block,
\* those before the anchor included.
C9_AnchorSkipped ==
    /\ \A j \in Processed : Shape[snapshot[j]].toc => j \notin BoundaryLines
    /\ \A k \in 1..Len(tweets) :
          (\E j \in Block(k) : Shape[snapshot[j]].toc) =>
              LET texts == TextsFrom(PrevBoundary(k) + 1, boundaries[k].line)
                  stats == LastStats(PrevBoundary(k), boundaries[k].line)
              IN  /\ boundaries[k].texts = texts
                  /\ boundaries[k].stats = stats
                  /\ tweets[k].text = PyStrip(Join(texts))
                  /\ tweets[k].likes = Engagement(ParseStats(stats).nums_int).likes
                  /\ tweets[k].retweets = Engagement(ParseStats(stats).nums_int).retweets
                  /\ tweets[k].replies = Engagement(ParseStats(stats).nums_int).replies

\* text, stats, anchor, permalink: the Post has the text and the three counters
C9_Witness ==
    /\ Len(snapshot) = 4
    /\ Len(tweets) = 1
    /\ boundaries[1].line = 4
    /\ Shape[snapshot[3]].toc
    /\ tweets[1].text = <<"hi">>
    /\ tweets[1].replies = IntLit(3)
    /\ tweets[1].retweets = IntLit(12)
    /\ tweets[1].likes = IntLit(847)

-----------------------------------------------------------------------------
(* C10  No two Posts of one result have the same id, also when the same    *)
(* permalink appears on more than one line of the snapshot.                *)

\* C10 as claimed: the ids of the list are pairwise distinct.
C10_UniqueIds ==
    \A a, b \in 1..Len(tweets) : a # b => tweets[a].id # tweets[b].id

-----------------------------------------------------------------------------
(* analyze: the author filter over the parser's result *)

MaxTweets == 3

None == [none |-> TRUE, s |-> <<>>]

Str(s) == [none |-> FALSE, s |-> s]

\* str.lower(), letter by letter
LowerChar(c) ==
    CASE c = "K" -> "k"
      [] c = "O" -> "o"
      [] c = "L" -> "l"
      [] c = "B" -> "b"
      [] OTHER   -> c

lower(s) == [i \in 1..Len(s) |-> LowerChar(s[i])]

\* A faulty variant: the comparison without .lower().
UserTweets_CaseSensitive(tweets_in, name) ==
    SelectSeq(tweets_in,
              LAMBDA t : t.author.none \/ LStripSet(t.author.s, {"@"}) = name)

\* [t for t in all_tweets if t.get("author") is None
\*                         or t["author"].lstrip("@").lower() == username.lower()]
UserTweets(tweets_in, name) ==
    SelectSeq(tweets_in,
              LAMBDA t : \/ t.author.none
                         \/ lower(LStripSet(t.author.s, {"@"})) = lower(name))

\* the author values a tweet of all_tweets may carry
AuthorSet ==
    { None,
      Str(<<"k", "o", "l">>),
      Str(<<"K", "o", "L">>),
      Str(<<"@", "k", "o", "l">>),
      Str(<<"@", "@", "K", "O", "L">>),
      Str(<<"b", "o", "b">>) }

\* the username path arguments
UsernameSet ==
    { <<"k", "o", "l">>, <<"@", "K", "O", "L">>, <<"B", "o", "b">> }

\* lists of tweets; a tweet's id is its position in all_tweets
TweetLists ==
    UNION { [1..n -> AuthorSet] : n \in 0..MaxTweets }

FilterInit ==
    /\ \E authors \in TweetLists :
         all_tweets = [i \in 1..Len(authors) |-> [id |-> i, author |-> authors[i]]]
    /\ username \in UsernameSet
    /\ user_tweets = Pending
    /\ filterOthersIdle

\* username = username.lstrip("@") ... user_tweets = [...]
FilterByAuthor ==
    /\ user_tweets = Pending
    /\ user_tweets' = Returned(UserTweets(all_tweets, LStripSet(username, {"@"})))
    /\ UNCHANGED <<all_tweets, username, filterOthers>>

FilterNext == FilterByAuthor

SpecFilter == FilterInit /\ [][FilterNext]_vars

-----------------------------------------------------------------------------
(* C11  The author filter returns exactly the tweets, in their original    *)
(* order, whose author is null or equals the target case-insensitively     *)
(* once leading "@" characters are removed from both; the result is never  *)
(* longer than the input and keeps every tweet whose author is null.       *)

\* a = b up to the case of the letters
EqualIgnoringCase(a, b) ==
    /\ Len(a) = Len(b)
    /\ \A i \in 1..Len(a) : LowerChar(a[i]) = LowerChar(b[i])

WithoutAt(s) == SubSeq(s, RunEnd(s, 1, {"@"}), Len(s))

KeptIds == {user_tweets.val[j].id : j \in 1..Len(user_tweets.val)}

InOriginalOrder ==
    LET out == user_tweets.val
    IN  /\ \A j \in 1..Len(out) : out[j] = all_tweets[out[j].id]
        /\ \A j, k \in 1..Len(out) : j < k => out[j].id < out[k].id

C11_FilterByAuthor ==
    user_tweets.st = "returned" =>
        /\ InOriginalOrder
        /\ Len(user_tweets.val) <= Len(all_tweets)
        /\ KeptIds = {i \in 1..Len(all_tweets) :
                        \/ all_tweets[i].author.none
                        \/ EqualIgnoringCase(WithoutAt(all_tweets[i].author.s),
                                             WithoutAt(username))}
        /\ \A i \in 1..Len(all_tweets) : all_tweets[i].author.none => i \in KeptIds

\* C11 as first stated: the author itself equals the target, case-insensitively
C11_AuthorEqualsTarget ==
    user_tweets.st = "returned" =>
        /\ InOriginalOrder
        /\ Len(user_tweets.val) <= Len(all_tweets)
        /\ KeptIds = {i \in 1..Len(all_tweets) :
                        \/ all_tweets[i].author.none
                        \/ EqualIgnoringCase(all_tweets[i].author.s, username)}

C11_Witness ==
    /\ user_tweets.st = "returned"
    /\ Len(all_tweets) = 3
    /\ all_tweets[1].author = Str(<<"b", "o", "b">>)
    /\ all_tweets[2].author = None
    /\ all_tweets[3].author = Str(<<"@", "@", "K", "O", "L">>)
    /\ username = <<"k", "o", "l">>
    /\ KeptIds = {2, 3}

-----------------------------------------------------------------------------
(* compute_posting_patterns *)

MaxPosts == 2

TIME_SLOTS ==
    << [label |-> "00-04", start |-> 0],  [label |-> "04-08", start |-> 4],
       [label |-> "08-12", start |-> 8],  [label |-> "12-16", start |-> 12],
       [label |-> "16-20", start |-> 16], [label |-> "20-24", start |-> 20] >>

\* for label, start in reversed(_TIME_SLOTS): if hour >= start: return label
RECURSIVE SlotFrom(_, _)
SlotFrom(hour, k) ==
    IF k = 0 THEN "00-04"
    ELSE IF hour >= TIME_SLOTS[k].start THEN TIME_SLOTS[k].label
    ELSE SlotFrom(hour, k - 1)

\* A faulty variant: _TIME_SLOTS scanned without reversed().
hour_to_slot_Forward(hour) ==
    LET first == CHOOSE k \in 1..Len(TIME_SLOTS) :
                     /\ hour >= TIME_SLOTS[k].start
                     /\ \A j \in 1..(k - 1) : hour < TIME_SLOTS[j].start
    IN  TIME_SLOTS[first].label

hour_to_slot(hour) == SlotFrom(hour, Len(TIME_SLOTS))

\* strftime("%A") of a weekday, Monday being 0
DayName ==
    <<"Monday", "Tuesday", "Wednesday", "Thursday", "Friday", "Saturday", "Sunday">>

RECURSIVE NatToInt(_)
NatToInt(ds) ==
    IF ds = <<>> THEN 0 ELSE NatToInt(SubSeq(ds, 1, Len(ds) - 1)) * 10 + ds[Len(ds)]

\* 9999-12-31 23:59:59 UTC in seconds, the last second a datetime can hold
LastSecond == <<2, 5, 3, 4, 0, 2, 3, 0, 0, 7, 9, 9>>

\* datetime.fromtimestamp(ts_ms / 1000, tz=timezone.utc) for ts_ms >= 0: the
\* weekday and the hour of the result, or the ValueError of a year past 9999.
\* 1970-01-01 was a Thursday (weekday 3).
fromtimestamp(ts_ms) ==
    LET secs == NatDiv(ts_ms.mag, 1000)
    IN  IF NatLess(LastSecond, secs) THEN Raised("ValueError")
        ELSE LET hrs == NatToInt(NatDiv(secs, 3600))
             IN  Returned([weekday |-> ((hrs \div 24) + 3) % 7, hour |-> hrs % 24])

\* A faulty variant: a counter born with every bucket at zero.
EmptyCounter_ZeroFilled ==
    [k \in {DayName[d] : d \in 1..Len(DayName)}
            \cup {TIME_SLOTS[j].label : j \in 1..Len(TIME_SLOTS)} |-> 0]

\* Counter()
EmptyCounter == <<>>

\* A faulty variant: every increment stores 1.
Count_Assign(counter, key) ==
    [k \in DOMAIN counter \cup {key} |-> IF k = key THEN 1 ELSE counter[k]]

\* counter[key] += 1
Count(counter, key) ==
    [k \in DOMAIN counter \cup {key} |->
        IF k = key THEN (IF key \in DOMAIN counter THEN counter[key] ELSE 0) + 1
        ELSE counter[k]]

\* A faulty variant: no timestamp is taken as missing.
IsFalsy_Never(ts_ms) == FALSE

\* not ts_ms
IsFalsy(ts_ms) == ts_ms = IntZero

Ms(digits) == IntOf(FALSE, digits)

\* the timestamp_ms values of the tweets: 0, and sums (id >> 22) + epoch
TimestampSet ==
    {
      Ms(<<0>>),
      Ms(<<1, 6, 4, 2, 7, 2, 3, 1, 7, 4, 6, 5, 7>>),  \* 1642723174657, the tests' fixture: Thursday 2022-01-20 23:59:34 UTC
      Ms(<<2, 5, 3, 4, 0, 2, 3, 0, 0, 8, 0, 0, 0, 0, 0>>),  \* the first millisecond of the year 10000
      Ms(<<1, 6, 4, 2, 7, 2, 3, 2, 0, 0, 0, 0, 0>>),  \* Friday 2022-01-21, hour 0
      Ms(<<1, 6, 4, 2, 7, 3, 0, 3, 9, 9, 9, 9, 9>>),  \* Friday 2022-01-21, hour 1
      Ms(<<1, 6, 4, 2, 7, 3, 0, 4, 0, 0, 0, 0, 0>>),  \* Friday 2022-01-21, hour 2
      Ms(<<1, 6, 4, 2, 7, 3, 7, 5, 9, 9, 9, 9, 9>>),  \* Friday 2022-01-21, hour 3
      Ms(<<1, 6, 4, 2, 7, 3, 7, 6, 0, 0, 0, 0, 0>>),  \* Friday 2022-01-21, hour 4
      Ms(<<1, 6, 4, 2, 7, 4, 4, 7, 9, 9, 9, 9, 9>>),  \* Friday 2022-01-21, hour 5
      Ms(<<1, 6, 4, 2, 7, 4, 4, 8, 0, 0, 0, 0, 0>>),  \* Friday 2022-01-21, hour 6
      Ms(<<1, 6, 4, 2, 7, 5, 1, 9, 9, 9, 9, 9, 9>>),  \* Friday 2022-01-21, hour 7
      Ms(<<1, 6, 4, 2, 7, 5, 2, 0, 0, 0, 0, 0, 0>>),  \* Friday 2022-01-21, hour 8
      Ms(<<1, 6, 4, 2, 7, 5, 9, 1, 9, 9, 9, 9, 9>>),  \* Friday 2022-01-21, hour 9
      Ms(<<1, 6, 4, 2, 7, 5, 9, 2, 0, 0, 0, 0, 0>>),  \* Friday 2022-01-21, hour 10
      Ms(<<1, 6, 4, 2, 7, 6, 6, 3, 9, 9, 9, 9, 9>>),  \* Friday 2022-01-21, hour 11
      Ms(<<1, 6, 4, 2, 7, 6, 6, 4, 0, 0, 0, 0, 0>>),  \* Friday 2022-01-21, hour 12
      Ms(<<1, 6, 4, 2, 7, 7, 3, 5, 9, 9, 9, 9, 9>>),  \* Friday 2022-01-21, hour 13
      Ms(<<1, 6, 4, 2, 7, 7, 3, 6, 0, 0, 0, 0, 0>>),  \* Friday 2022-01-21, hour 14
      Ms(<<1, 6, 4, 2, 7, 8, 0, 7, 9, 9, 9, 9, 9>>),  \* Friday 2022-01-21, hour 15
      Ms(<<1, 6, 4, 2, 7, 8, 0, 8, 0, 0, 0, 0, 0>>),  \* Friday 2022-01-21, hour 16
      Ms(<<1, 6, 4, 2, 7, 8, 7, 9, 9, 9, 9, 9, 9>>),  \* Friday 2022-01-21, hour 17
      Ms(<<1, 6, 4, 2, 7, 8, 8, 0, 0, 0, 0, 0, 0>>),  \* Friday 2022-01-21, hour 18
      Ms(<<1, 6, 4, 2, 7, 9, 5, 1, 9, 9, 9, 9, 9>>),  \* Friday 2022-01-21, hour 19
      Ms(<<1, 6, 4, 2, 7, 9, 5, 2, 0, 0, 0, 0, 0>>),  \* Friday 2022-01-21, hour 20
      Ms(<<1, 6, 4, 2, 8, 0, 2, 3, 9, 9, 9, 9, 9>>),  \* Friday 2022-01-21, hour 21
      Ms(<<1, 6, 4, 2, 8, 0, 2, 4, 0, 0, 0, 0, 0>>),  \* Friday 2022-01-21, hour 22
      Ms(<<1, 6, 4, 2, 8, 0, 9, 5, 9, 9, 9, 9, 9>>)   \* Friday 2022-01-21, hour 23
    }

\* per timestamp: what fromtimestamp gives
Dated == [ts \in TimestampSet |-> fromtimestamp(ts)]

\* compute_posting_patterns(list) from tweet k on, days and hours being d and h
RECURSIVE PatternsFrom(_, _, _, _)
PatternsFrom(list, k, d, h) ==
    IF k > Len(list) THEN Returned([peak_days |-> d, peak_hours |-> h])
    ELSE LET ts_ms == list[k].timestamp_ms
         IN  IF IsFalsy(ts_ms) THEN PatternsFrom(list, k + 1, d, h)
             ELSE IF Dated[ts_ms].st = "raised" THEN Dated[ts_ms]
             ELSE LET dt == Dated[ts_ms].val
                  IN  PatternsFrom(list, k + 1,
                                   Count(d, DayName[dt.weekday + 1]),
                                   Count(h, hour_to_slot(dt.hour)))

compute_posting_patterns(list) == PatternsFrom(list, 1, EmptyCounter, EmptyCounter)

PatternsInit ==
    /\ \E n \in 0..MaxPosts : \E stamps \in [1..n -> TimestampSet] :
         cp_tweets = [i \in 1..n |-> [timestamp_ms |-> stamps[i]]]
    /\ cp_t = 0
    /\ days = EmptyCounter
    /\ hours = EmptyCounter
    /\ cp_pc = "loop"
    /\ patternsOthersIdle

InLoop == cp_pc = "loop" /\ cp_t < Len(cp_tweets)

\* if not ts_ms: continue
SkipUndated ==
    /\ InLoop
    /\ IsFalsy(cp_tweets[cp_t + 1].timestamp_ms)
    /\ cp_t' = cp_t + 1
    /\ UNCHANGED <<cp_tweets, days, hours, cp_pc, patternsOthers>>

\* A faulty variant: the hour band is counted only for the first tweet of a day.
CountTweet_HoursOncePerDay ==
    /\ InLoop
    /\ LET ts_ms == cp_tweets[cp_t + 1].timestamp_ms
           day   == DayName[Dated[ts_ms].val.weekday + 1]
       IN  /\ ~IsFalsy(ts_ms)
           /\ Dated[ts_ms].st = "returned"
           /\ hours' = IF day \in DOMAIN days THEN hours
                       ELSE Count(hours, hour_to_slot(Dated[ts_ms].val.hour))
           /\ days' = Count(days, day)
    /\ cp_t' = cp_t + 1
    /\ UNCHANGED <<cp_tweets, cp_pc, patternsOthers>>

\* days[dt.strftime("%A")] += 1; hours[_hour_to_slot(dt.hour)] += 1
CountTweet ==
    /\ InLoop
    /\ LET ts_ms == cp_tweets[cp_t + 1].timestamp_ms
       IN  /\ ~IsFalsy(ts_ms)
           /\ Dated[ts_ms].st = "returned"
           /\ days' = Count(days, DayName[Dated[ts_ms].val.weekday + 1])
           /\ hours' = Count(hours, hour_to_slot(Dated[ts_ms].val.hour))
    /\ cp_t' = cp_t + 1
    /\ UNCHANGED <<cp_tweets, cp_pc, patternsOthers>>

\* dt = datetime.fromtimestamp(...) raises: the call ends with the exception
RaiseOutOfRange ==
    /\ InLoop
    /\ LET ts_ms == cp_tweets[cp_t + 1].timestamp_ms
       IN  /\ ~IsFalsy(ts_ms)
           /\ Dated[ts_ms].st = "raised"
    /\ cp_pc' = "raised"
    /\ UNCHANGED <<cp_tweets, cp_t, days, hours, patternsOthers>>

\* return {"peak_days": dict(days), "peak_hours": dict(hours)}
ReturnPatterns ==
    /\ cp_pc = "loop"
    /\ cp_t = Len(cp_tweets)
    /\ cp_pc' = "done"
    /\ UNCHANGED <<cp_tweets, cp_t, days, hours, patternsOthers>>

PatternsNext ==
    \/ SkipUndated
    \/ CountTweet
    \/ RaiseOutOfRange
    \/ ReturnPatterns

SpecPatterns == PatternsInit /\ [][PatternsNext]_vars

-----------------------------------------------------------------------------
(* What the claims on compute_posting_patterns speak of *)

Positive(i) == IntLess(IntZero, cp_tweets[i].timestamp_ms)

\* the tweets the loop has gone past that carry a positive timestamp
Counted == {i \in 1..cp_t : Positive(i)}

DayOf(i) == DayName[Dated[cp_tweets[i].timestamp_ms].val.weekday + 1]

HourOf(i) == Dated[cp_tweets[i].timestamp_ms].val.hour

RECURSIVE Total(_, _)
Total(counter, keys) ==
    IF keys = {} THEN 0
    ELSE LET k == CHOOSE x \in keys : TRUE
         IN  counter[k] + Total(counter, keys \ {k})

BandLabels == <<"00-04", "04-08", "08-12", "12-16", "16-20", "20-24">>

BandAt(h) == BandLabels[(h \div 4) + 1]

-----------------------------------------------------------------------------
(* C12  A post is counted in peak_days and in peak_hours only if its       *)
(* timestamp_ms is positive: a post with timestamp_ms = 0 adds to neither  *)
(* histogram and creates no bucket.                                        *)

C12_OnlyPositiveCounted ==
    /\ Total(days, DOMAIN days) = Cardinality(Counted)
    /\ Total(hours, DOMAIN hours) = Cardinality(Counted)
    /\ DOMAIN days = {DayOf(i) : i \in Counted}
    /\ DOMAIN hours = {BandAt(HourOf(i)) : i \in Counted}

C12_Witness ==
    /\ cp_pc = "done"
    /\ Len(cp_tweets) = 2
    /\ cp_tweets[1].timestamp_ms = IntZero
    /\ Positive(2)
    /\ days = [k \in {"Thursday"} |-> 1]
    /\ hours = [k \in {"20-24"} |-> 1]

-----------------------------------------------------------------------------
(* C13  For every UTC hour h in 0..23 the band incremented for a post at   *)
(* hour h is the label at index h // 4 of (00-04, 04-08, 08-12, 12-16,     *)
(* 16-20, 20-24), and each counted post increments exactly one band.       *)

C13_BandByFloorDivision ==
    /\ \A h \in 0..23 : hour_to_slot(h) = BandAt(h)
    /\ DOMAIN hours \subseteq {BandLabels[k] : k \in 1..Len(BandLabels)}
    /\ \A k \in 1..Len(BandLabels) :
         LET n == Cardinality({i \in Counted : BandAt(HourOf(i)) = BandLabels[k]})
         IN  IF n = 0 THEN BandLabels[k] \notin DOMAIN hours
             ELSE BandLabels[k] \in DOMAIN hours /\ hours[BandLabels[k]] = n

C13_Witness ==
    /\ cp_pc = "done"
    /\ Len(cp_tweets) = 2
    /\ Counted = {1, 2}
    /\ HourOf(1) = 3
    /\ HourOf(2) = 4
    /\ hours = [k \in {"00-04", "04-08"} |-> 1]

-----------------------------------------------------------------------------
(* C14  Every key present in peak_days or peak_hours has a count of at     *)
(* least 1, and an input with no post of positive timestamp_ms, the empty  *)
(* list included, yields two empty mappings and no error.                  *)

C14_NoZeroBucket ==
    /\ \A k \in DOMAIN days : days[k] >= 1
    /\ \A k \in DOMAIN hours : hours[k] >= 1
    /\ (\A i \in 1..Len(cp_tweets) : ~Positive(i)) =>
           /\ cp_pc # "raised"
           /\ DOMAIN days = {}
           /\ DOMAIN hours = {}

C14_Witness ==
    /\ cp_pc = "done"
    /\ Len(cp_tweets) = 2
    /\ \A i \in 1..2 : ~Positive(i)
    /\ DOMAIN days = {}
    /\ DOMAIN hours = {}

-----------------------------------------------------------------------------
(* C15  The report depends only on the multiset of timestamps: every       *)
(* reordering of the list gives the same outcome, and k posts sharing one  *)
(* timestamp_ms raise the same day bucket and the same hour band by k.     *)

Outcome ==
    IF cp_pc = "done" THEN Returned([peak_days |-> days, peak_hours |-> hours])
    ELSE Raised("ValueError")

Reordered(list, p) == [i \in 1..Len(list) |-> list[p[i]]]

\* counter with key raised by k
Bump(counter, key, k) ==
    [x \in DOMAIN counter \cup {key} |->
        (IF x \in DOMAIN counter THEN counter[x] ELSE 0) + (IF x = key THEN k ELSE 0)]

C15_MultisetOnly ==
    /\ cp_pc \in {"done", "raised"} =>
           \A p \in Permutations(1..Len(cp_tweets)) :
               compute_posting_patterns(Reordered(cp_tweets, p)) = Outcome
    /\ cp_pc = "done" =>
           \A i \in Counted :
               LET v      == cp_tweets[i].timestamp_ms
                   k      == Cardinality({j \in 1..Len(cp_tweets) :
                                             cp_tweets[j].timestamp_ms = v})
                   others == SelectSeq(cp_tweets, LAMBDA t : t.timestamp_ms # v)
                   rest   == compute_posting_patterns(others).val
               IN  /\ days = Bump(rest.peak_days, DayOf(i), k)
                   /\ hours = Bump(rest.peak_hours, BandAt(HourOf(i)), k)

C15_Witness ==
    /\ cp_pc = "done"
    /\ Len(cp_tweets) = 2
    /\ cp_tweets[1] = cp_tweets[2]
    /\ Positive(1)
    /\ days = [k \in {"Friday"} |-> 2]
    /\ hours = [k \in {"12-16"} |-> 2]

-----------------------------------------------------------------------------
(* extract_tweet_data called twice, the calls' steps interleaved *)

MaxCallLines == 2

CallLineSet == {LText1, LStats1, LStatsBad, LUrlB}

CallSnapshots == UNION { [1..n -> CallLineSet] : n \in 0..MaxCallLines }

\* tweets = []; pending_texts = []; pending_stats = None, no line taken yet
NewFrame == [n |-> 0, pending_texts |-> <<>>, pending_stats |-> <<>>, tweets |-> <<>>]

\* A faulty variant: the accumulators live in one place that every call uses.
FrameOf_Shared(k) == 1

\* the locals of call k: each call has a frame of its own
FrameOf(k) == k

\* one iteration of "for line in lines" on the locals f: the locals after
\* it, or the exception that ends the call
LoopBody(f, l) ==
    LET sc == Scanned[l]
    IN  IF sc.id_match.found
        THEN LET stats == ParseStats(f.pending_stats)
                 text  == PyStrip(Join(f.pending_texts))
                 eng   == Engagement(stats.nums_int)
             IN  IF stats.exc # "none" THEN Raised(stats.exc)
                 ELSE IF sc.ms.st = "raised" THEN sc.ms
                 ELSE Returned(
                     [n             |-> f.n + 1,
                      pending_texts |-> <<>>,
                      pending_stats |-> <<>>,
                      tweets        |->
                          IF text # <<>> \/ sc.id_match.id # <<>>
                          THEN Append(f.tweets,
                                   [id |-> sc.id_match.id, text |-> text,
                                    timestamp_ms |-> sc.ms.val,
                                    likes |-> eng.likes, retweets |-> eng.retweets,
                                    replies |-> eng.replies])
                          ELSE f.tweets])
        ELSE IF sc.is_text /\ sc.is_stats
        THEN Returned([f EXCEPT !.n = @ + 1, !.pending_stats = sc.content])
        ELSE IF sc.is_text
        THEN Returned([f EXCEPT !.n = @ + 1, !.pending_texts = Append(@, sc.content)])
        ELSE Returned([f EXCEPT !.n = @ + 1])

\* the call run on its own, from the locals f to its end
RECURSIVE RunFrom(_, _)
RunFrom(lines, f) ==
    IF f.n >= Len(lines) THEN Returned(f.tweets)
    ELSE LET r == LoopBody(f, lines[f.n + 1])
         IN  IF r.st = "raised" THEN r ELSE RunFrom(lines, r.val)

extract_tweet_data(lines) == RunFrom(lines, NewFrame)

CallsInit ==
    /\ call_snapshot \in CallSnapshots \X CallSnapshots
    /\ call_frame = [k \in {1, 2} |-> NewFrame]
    /\ call_out = [k \in {1, 2} |-> Pending]
    /\ call_overlap = FALSE
    /\ callsOthersIdle

\* call k has taken a line and has not returned
Running(k) == call_out[k] = Pending /\ call_frame[FrameOf(k)].n > 0

\* call k runs one iteration of its loop
Iterate(k) ==
    /\ call_out[k] = Pending
    /\ LET f == call_frame[FrameOf(k)]
       IN  /\ f.n < Len(call_snapshot[k])
           /\ LET r == LoopBody(f, call_snapshot[k][f.n + 1])
              IN  IF r.st = "raised"
                  THEN /\ call_out' = [call_out EXCEPT ![k] = r]
                       /\ UNCHANGED call_frame
                  ELSE /\ call_frame' = [call_frame EXCEPT ![FrameOf(k)] = r.val]
                       /\ UNCHANGED call_out
    /\ call_overlap' = (call_overlap \/ Running(3 - k))
    /\ UNCHANGED <<call_snapshot, callsOthers>>

\* call k: return tweets
Finish(k) ==
    /\ call_out[k] = Pending
    /\ call_frame[FrameOf(k)].n = Len(call_snapshot[k])
    /\ call_out' = [call_out EXCEPT ![k] = Returned(call_frame[FrameOf(k)].tweets)]
    /\ call_overlap' = (call_overlap \/ Running(3 - k))
    /\ UNCHANGED <<call_snapshot, call_frame, callsOthers>>

CallsNext == \E k \in {1, 2} : Iterate(k) \/ Finish(k)

SpecCalls == CallsInit /\ [][CallsNext]_vars

-----------------------------------------------------------------------------
(* C16  The parser is deterministic and self-contained: two calls on the   *)
(* same snapshot return identical lists, and what a call returns is what   *)
(* it returns when run alone, however its steps are interleaved with       *)
(* another call's.                                                         *)

C16_SelfContained ==
    /\ \A k \in {1, 2} :
         call_out[k] # Pending => call_out[k] = extract_tweet_data(call_snapshot[k])
    /\ (/\ call_snapshot[1] = call_snapshot[2]
        /\ call_out[1] # Pending
        /\ call_out[2] # Pending) => call_out[1] = call_out[2]

C16_Witness ==
    /\ call_overlap
    /\ call_snapshot[1] = <<LText1, LUrlB>>
    /\ call_snapshot[2] = call_snapshot[1]
    /\ call_out[1].st = "returned"
    /\ call_out[2] = call_out[1]
    /\ Len(call_out[1].val) = 1
    /\ call_out[1].val[1].text = <<"hi">>

-----------------------------------------------------------------------------
(* parse_account: the count fields.  The header parser is described in     *)
(* spec.md section 4.2 only; what follows is that description.             *)

CountFields == {"followers", "following", "tweets_count"}

RECURSIVE DigitsToInt(_)
DigitsToInt(ds) ==
    IF ds = <<>> THEN 0
    ELSE DigitsToInt(SubSeq(ds, 1, Len(ds) - 1)) * 10 + DigitVal(ds[Len(ds)])

\* the parts of a count text: a digit-and-separator run, an optional "."
\* with its digits, and what is left (the suffix)
CountParts(s) ==
    LET e    == RunEnd(s, 1, NumTok)
        dot  == e <= Len(s) /\ s[e] = "."
        fe   == IF dot THEN RunEnd(s, e + 1, Digit) ELSE e
    IN  [whole  |-> RemoveCommas(SubSeq(s, 1, e - 1)),
         dot    |-> dot,
         frac   |-> IF dot THEN SubSeq(s, e + 1, fe - 1) ELSE <<>>,
         suffix |-> SubSeq(s, fe, Len(s))]

\* K -> x1,000, M -> x1,000,000; 0 for a suffix that is neither
Multiplier(suffix) ==
    CASE suffix = <<>>    -> 1
      [] suffix = <<"K">> -> 1000
      [] suffix = <<"M">> -> 1000000
      [] OTHER            -> 0

\* a count text that can be parsed
Parseable(s) ==
    LET p == CountParts(s)
    IN  /\ p.whole # <<>>
        /\ p.dot => p.frac # <<>>
        /\ Multiplier(p.suffix) # 0

\* n / d rounded to the nearest integer
RoundDiv(n, d) == (2 * n + d) \div (2 * d)

\* A faulty variant: the fraction is cut off instead of rounded.
parse_count_Truncating(s) ==
    LET p == CountParts(s)
    IN  IF ~Parseable(s) THEN 0
        ELSE (DigitsToInt(p.whole \o p.frac) * Multiplier(p.suffix)) \div (10 ^ Len(p.frac))

\* the integer a count text stands for; 0 when it cannot be parsed
parse_count(s) ==
    LET p == CountParts(s)
    IN  IF ~Parseable(s) THEN 0
        ELSE RoundDiv(DigitsToInt(p.whole \o p.frac) * Multiplier(p.suffix),
                      10 ^ Len(p.frac))

\* count texts of a header
CountSet ==
    { <<"1", "2", ".", "3", "K">>,            \* 12.3K
      <<"1", ".", "2", "M">>,                 \* 1.2M
      <<"1", ".", "2", "3", "4", "6", "K">>,  \* 1.2346K
      <<"1", ".", "2", "3", "4", "3", "K">>,  \* 1.2343K
      <<"8", "4", "7">>,                      \* 847
      <<"1", ",", "2", "3", "4">>,            \* 1,234
      <<"3", "M">>,                           \* 3M
      <<"1", "2", ".", "3", "X">>,            \* 12.3X
      <<"K">>,                                \* K
      <<>> }                                  \* the label is missing

AccountInit ==
    /\ header \in [CountFields -> CountSet]
    /\ account = [f \in CountFields |-> Pending]
    /\ accountOthersIdle

\* the field f of the Account is read from the header
ParseField(f) ==
    /\ account[f] = Pending
    /\ account' = [account EXCEPT ![f] = Returned(parse_count(header[f]))]
    /\ UNCHANGED <<header, accountOthers>>

AccountNext == \E f \in CountFields : ParseField(f)

SpecAccount == AccountInit /\ [][AccountNext]_vars

-----------------------------------------------------------------------------
(* C17  parse_account expands the suffixes of compact counts: a value with *)
(* suffix K is multiplied by 1,000 and one with suffix M by 1,000,000,     *)
(* rounded to the nearest integer ("Followers 12.3K" gives 12300); a count *)
(* that cannot be parsed gives 0 and no error.                             *)

Abs(x) == IF x < 0 THEN 0 - x ELSE x

\* r is an integer nearest to mantissa * m, the mantissa being whole.frac
NearestTo(r, whole, frac, m) ==
    2 * Abs(r * (10 ^ Len(frac)) - DigitsToInt(whole \o frac) * m) <= 10 ^ Len(frac)

C17_SuffixExpanded ==
    \A f \in CountFields :
        LET s == header[f]
            p == CountParts(s)
        IN  /\ account[f].st \in {"pending", "returned"}
            /\ account[f] # Pending =>
                 /\ account[f].val \in Nat
                 /\ (Parseable(s) /\ p.suffix = <<"K">>) =>
                        NearestTo(account[f].val, p.whole, p.frac, 1000)
                 /\ (Parseable(s) /\ p.suffix = <<"M">>) =>
                        NearestTo(account[f].val, p.whole, p.frac, 1000000)
                 /\ (Parseable(s) /\ p.suffix = <<>>) =>
                        NearestTo(account[f].val, p.whole, p.frac, 1)
                 /\ ~Parseable(s) => account[f].val = 0
                 /\ s = <<"1", "2", ".", "3", "K">> => account[f].val = 12300

C17_Witness ==
    /\ header["followers"] = <<"1", "2", ".", "3", "K">>
    /\ account["followers"] = Returned(12300)
    /\ header["following"] = <<"1", ".", "2", "M">>
    /\ account["following"] = Returned(1200000)
    /\ header["tweets_count"] = <<"1", "2", ".", "3", "X">>
    /\ account["tweets_count"] = Returned(0)

-----------------------------------------------------------------------------
(* AnalysisPage: useAnalysis, the result effect and the profile fetch.      *)
(* handleChatAnalysis, which stores the results that arrive over the chat  *)
(* stream, is not modelled here.                                           *)

Sessions == {"s1", "s2"}

Usernames == {"kol", "bob"}

Null == [null |-> TRUE]

\* an AnalysisResult for username; requested_in is the session_id its request carried
ResultOf(u, s) == [null |-> FALSE, username |-> u, requested_in |-> s]

\* { ...map, [key]: value }
Spread(map, key, value) ==
    [k \in DOMAIN map \cup {key} |-> IF k = key THEN value ELSE map[k]]

\* useEffect(() => { if (result) { setProfilesBySession(...) } }, [result, activeSessionId]):
\* profilesBySession after the effect has run with result and active
ResultEffect(profiles, result, active) ==
    IF result.null THEN profiles
    ELSE [profiles EXCEPT ![active] = Spread(@, result.username, result)]

PageInit ==
    /\ activeSessionId \in Sessions
    /\ state = [status |-> "idle", result |-> Null]
    /\ request = Null
    /\ profilesBySession = [s \in Sessions |-> <<>>]
    /\ fetching = {activeSessionId}
    /\ pageOthersIdle

\* handleAnalyze -> analyze(username, tweets): setState(loading), then the
\* POST with session_id = the sessionId of this render
Analyze(u) ==
    /\ state.status # "loading"
    /\ state' = [status |-> "loading", result |-> Null]
    /\ request' = [null |-> FALSE, username |-> u, session_id |-> activeSessionId]
    /\ profilesBySession' = ResultEffect(profilesBySession, Null, activeSessionId)
    /\ UNCHANGED <<activeSessionId, fetching, pageOthers>>

\* the stream delivers the result event: setState(success, result), and the
\* result effect runs with the activeSessionId of that render
ReceiveResult ==
    /\ ~request.null
    /\ LET result == ResultOf(request.username, request.session_id)
       IN  /\ state' = [status |-> "success", result |-> result]
           /\ profilesBySession' = ResultEffect(profilesBySession, result, activeSessionId)
    /\ request' = Null
    /\ UNCHANGED <<activeSessionId, fetching, pageOthers>>

\* the stream delivers an error event, or fetch throws
ReceiveError ==
    /\ ~request.null
    /\ state' = [status |-> "error", result |-> Null]
    /\ request' = Null
    /\ UNCHANGED <<activeSessionId, profilesBySession, fetching, pageOthers>>

\* switchSession(id): activeSessionId changes, so both effects keyed on it
\* run: the profile fetch starts and the result effect runs again
SwitchSession(id) ==
    /\ id # activeSessionId
    /\ activeSessionId' = id
    /\ fetching' = fetching \cup {id}
    /\ profilesBySession' = ResultEffect(profilesBySession, state.result, id)
    /\ UNCHANGED <<state, request, pageOthers>>

\* fetchProfiles of session s gets its answer: the stored profiles of s
\* replace profilesBySession[s] unless there are none
ProfilesFetched(s) ==
    /\ s \in fetching
    /\ fetching' = fetching \ {s}
    /\ \E names \in SUBSET Usernames :
         profilesBySession' =
             IF names = {} THEN profilesBySession
             ELSE [profilesBySession EXCEPT ![s] = [u \in names |-> ResultOf(u, s)]]
    /\ UNCHANGED <<activeSessionId, state, request, pageOthers>>

PageNext ==
    \/ \E u \in Usernames : Analyze(u)
    \/ ReceiveResult
    \/ ReceiveError
    \/ \E id \in Sessions : SwitchSession(id)
    \/ \E s \in Sessions : ProfilesFetched(s)

SpecPage == PageInit /\ [][PageNext]_vars

-----------------------------------------------------------------------------
(* C18  Analysis results are isolated per session: profilesBySession[s]    *)
(* holds a result only if its analysis was requested in session s, and a   *)
(* switch of the active session copies no earlier result into the map of   *)
(* the newly active session.                                               *)

C18_ResultsIsolated ==
    \A s \in Sessions :
        \A u \in DOMAIN profilesBySession[s] :
            profilesBySession[s][u].requested_in = s

-----------------------------------------------------------------------------
(* ChatPanel and useChat: the session id of a chat request *)

MaxSent == 4

\* what crypto.randomUUID() may return
UUIDs == {"uuid-1", "uuid-2"}

\* getOrCreateSessionId(): the id it returns and the item it leaves in
\* localStorage, id being the value randomUUID gives if it is called
getOrCreateSessionId(item, id) ==
    IF item = "" THEN [id |-> id, item |-> id] ELSE [id |-> item, item |-> item]

\* A ChatPanel is mounted with the sessionId prop given: useChat starts with
\* sessionIdRef = "default" and isStreaming = false, and its mount effect
\* sets sessionIdRef.current = getOrCreateSessionId()
MountedWith(given) ==
    /\ sessionId' = given
    /\ isStreaming' = FALSE
    /\ \E id \in UUIDs :
         LET r == getOrCreateSessionId(localStorageId, id)
         IN  /\ sessionIdRef' = r.id
             /\ localStorageId' = r.item

ChatInit ==
    /\ sessionId \in Sessions
    /\ isStreaming = FALSE
    /\ \E item \in UUIDs \cup {""}, id \in UUIDs :
         LET r == getOrCreateSessionId(item, id)
         IN  /\ sessionIdRef = r.id
             /\ localStorageId = r.item
    /\ sent = <<>>
    /\ chatOthersIdle

\* key={activeSessionId}: the active session changes and the panel is remounted
Remount(id) ==
    /\ id # sessionId
    /\ MountedWith(id)
    /\ UNCHANGED <<sent, chatOthers>>

\* handleSubmit -> sendMessage(text): POST /api/chat with
\* session_id: sessionIdRef.current
SendMessage ==
    /\ ~isStreaming
    /\ Len(sent) < MaxSent
    /\ isStreaming' = TRUE
    /\ sent' = Append(sent, [session_id |-> sessionIdRef, sessionId |-> sessionId])
    /\ UNCHANGED <<sessionId, sessionIdRef, localStorageId, chatOthers>>

\* the done or error event arrives, or fetch throws
StreamEnds ==
    /\ isStreaming
    /\ isStreaming' = FALSE
    /\ UNCHANGED <<sessionId, sessionIdRef, localStorageId, sent, chatOthers>>

ChatNext ==
    \/ \E id \in Sessions : Remount(id)
    \/ SendMessage
    \/ StreamEnds

SpecChat == ChatInit /\ [][ChatNext]_vars

-----------------------------------------------------------------------------
(* C19  Every POST /api/chat request of sendMessage carries the sessionId  *)
(* the ChatPanel was given, so messages sent in two different sessions are *)
(* sent under two different session ids.                                   *)

C19_RequestCarriesSessionId ==
    /\ \A i \in 1..Len(sent) : sent[i].session_id = sent[i].sessionId
    /\ \A i, j \in 1..Len(sent) :
         sent[i].sessionId # sent[j].sessionId => sent[i].session_id # sent[j].session_id

-----------------------------------------------------------------------------
(* C20  Within one block a content line of only digits, commas and         *)
(* whitespace is never part of the Post's text and replaces any earlier    *)
(* stats line, so the counters come from the last such line before the     *)
(* permalink; every other content line is appended in order, and text is   *)
(* those lines joined by single spaces and trimmed.                        *)

\* s consists of digits, commas and blanks only (and is not empty)
OnlyDigitsCommasBlanks(s) ==
    /\ s # <<>>
    /\ \A i \in 1..Len(s) : s[i] \in Digit \cup {",", " "}

\* the contents of the "- text:" lines of block k, in line order
RECURSIVE ContentsFrom(_, _)
ContentsFrom(j, hi) ==
    IF j >= hi THEN <<>>
    ELSE IF IsTextLine(Stripped(snapshot[j]))
         THEN <<Content(Stripped(snapshot[j]))>> \o ContentsFrom(j + 1, hi)
         ELSE ContentsFrom(j + 1, hi)

\* parts with one blank between neighbours
RECURSIVE SingleSpaced(_)
SingleSpaced(parts) ==
    IF parts = <<>> THEN <<>>
    ELSE IF Len(parts) = 1 THEN parts[1]
    ELSE SingleSpaced(SubSeq(parts, 1, Len(parts) - 1)) \o <<" ">> \o parts[Len(parts)]

Trimmed(s) == LStripSet(RStripSet(s, {" "}), {" "})

C20_LastStatsLineWins ==
    \A k \in 1..Len(tweets) :
        LET contents == ContentsFrom(PrevBoundary(k) + 1, boundaries[k].line)
            stats    == SelectSeq(contents, OnlyDigitsCommasBlanks)
            others   == SelectSeq(contents, LAMBDA c : ~OnlyDigitsCommasBlanks(c))
            last     == IF stats = <<>> THEN <<>> ELSE stats[Len(stats)]
            counters == Engagement(ParseStats(last).nums_int)
        IN  /\ tweets[k].text = Trimmed(SingleSpaced(others))
            /\ tweets[k].replies = counters.replies
            /\ tweets[k].retweets = counters.retweets
            /\ tweets[k].likes = counters.likes

\* stats, text, stats, permalink: the Post has the text and the counters of
\* the second stats line
C20_Witness ==
    /\ snapshot = <<LStats3, LText1, LStats1, LUrlB>>
    /\ Len(tweets) = 1
    /\ tweets[1].text = <<"hi">>
    /\ tweets[1].replies = IntZero
    /\ tweets[1].retweets = IntZero
    /\ tweets[1].likes = IntLit(7)

-----------------------------------------------------------------------------
(* C21  After a Post is emitted both accumulators are empty: every content *)
(* line and every stats line contributes to at most one Post, the first    *)
(* boundary after it, and a boundary reached with no pending content still *)
(* emits a Post with text "" and replies = retweets = likes = 0.           *)

\* the line of the last boundary so far (0: none)
LastBoundary == IF boundaries = <<>> THEN 0 ELSE boundaries[Len(boundaries)].line

C21_AccumulatorsCleared ==
    /\ (pc # "raised" /\ Len(snapshot) > 0 /\ LastBoundary = Len(snapshot)) =>
           pending_texts = <<>> /\ pending_stats = <<>>
    /\ pc # "raised" =>
           /\ pending_texts = TextsFrom(LastBoundary + 1, Len(snapshot) + 1)
           /\ pending_stats = LastStats(LastBoundary, Len(snapshot) + 1)
    /\ \A k \in 1..Len(tweets) :
           /\ boundaries[k].texts = TextsFrom(PrevBoundary(k) + 1, boundaries[k].line)
           /\ boundaries[k].stats = LastStats(PrevBoundary(k), boundaries[k].line)
           /\ (\A j \in Block(k) : ~Scanned[snapshot[j]].is_text) =>
                  /\ tweets[k].text = <<>>
                  /\ tweets[k].replies = IntZero
                  /\ tweets[k].retweets = IntZero
                  /\ tweets[k].likes = IntZero

\* text, stats, permalink, permalink: the second Post takes nothing from the
\* lines of the first
C21_Witness ==
    /\ snapshot = <<LText1, LStats1, LUrlB, LUrlA>>
    /\ pc = "done"
    /\ Len(tweets) = 2
    /\ tweets[1].text = <<"hi">>
    /\ tweets[1].likes = IntLit(7)
    /\ tweets[2].text = <<>>
    /\ tweets[2].likes = IntZero
    /\ tweets[2].retweets = IntZero
    /\ tweets[2].replies = IntZero

-----------------------------------------------------------------------------
(* C29  For every input list the sum of the counts in peak_days equals the *)
(* sum of the counts in peak_hours, and both equal the number of input     *)
(* posts with timestamp_ms > 0.                                            *)

C29_SumsAgree ==
    cp_pc = "done" =>
        LET n == Cardinality({i \in 1..Len(cp_tweets) : Positive(i)})
        IN  /\ Total(days, DOMAIN days) = n
            /\ Total(hours, DOMAIN hours) = n

\* two tweets of one day in two bands, and one without timestamp
C29_Witness ==
    /\ cp_pc = "done"
    /\ Len(cp_tweets) = 2
    /\ Positive(1)
    /\ Positive(2)
    /\ DayOf(1) = DayOf(2)
    /\ BandAt(HourOf(1)) # BandAt(HourOf(2))
    /\ Total(days, DOMAIN days) = 2
    /\ Total(hours, DOMAIN hours) = 2

-----------------------------------------------------------------------------
(* C30  When the pending stats line holds more than three digit-group      *)
(* tokens, the first three go to replies, retweets and likes in that order *)
(* and the remaining tokens change no field of the Post.                   *)

C30_FirstThreeTokens ==
    \A k \in 1..Len(tweets) :
        LET toks == FindAll(boundaries[k].stats)
            line == snapshot[boundaries[k].line]
        IN  Len(toks) > 3 =>
                tweets[k] = [id           |-> Shape[line].digits,
                             text         |-> Trimmed(SingleSpaced(boundaries[k].texts)),
                             timestamp_ms |-> Scanned[line].ms.val,
                             replies      |-> TokenValue(toks[1]),
                             retweets     |-> TokenValue(toks[2]),
                             likes        |-> TokenValue(toks[3])]

\* "3 12 847 4,291": the fourth counter is dropped
C30_Witness ==
    /\ snapshot = <<LText1, LStats4, LUrlB>>
    /\ Len(tweets) = 1
    /\ tweets[1].replies = IntLit(3)
    /\ tweets[1].retweets = IntLit(12)
    /\ tweets[1].likes = IntLit(847)
    /\ tweets[1].text = <<"hi">>

-----------------------------------------------------------------------------
(* Server-sent events as the hooks read them.  A response body is a        *)
(* sequence of pieces of text: the field name of a line, its value, and    *)
(* the newline.  reader.read() may hand over the body cut between any two  *)
(* pieces.                                                                 *)

NL == "\n"

EventField == "event: "

DataField == "data: "

\* one event on the wire: "event: <name>\n" "data: <json>\n" "\n"
Wire(name, json) == <<EventField, name, NL, DataField, json, NL, NL>>

\* String.prototype.split("\n"): the pieces between the newlines, the last
\* one being what follows the last newline
RECURSIVE SplitFrom(_, _, _)
SplitFrom(text, cur, acc) ==
    IF text = <<>> THEN Append(acc, cur)
    ELSE IF Head(text) = NL THEN SplitFrom(Tail(text), <<>>, Append(acc, cur))
    ELSE SplitFrom(Tail(text), Append(cur, Head(text)), acc)

split(text) == SplitFrom(text, <<>>, <<>>)

\* lines = buffer.split("\n"); buffer = lines.pop() ?? ""
PopLast(lines) == [lines |-> SubSeq(lines, 1, Len(lines) - 1), buffer |-> lines[Len(lines)]]

\* line.startsWith(field)
startsWith(line, field) == line # <<>> /\ line[1] = field

\* line.slice(7) and line.slice(6): the line after its field name
slice(line) == Tail(line)

\* String.prototype.trim()
trim(s) == StripSet(s, Space)

\* the JSON texts of the streams below
JFetching == "{stage: fetching}"

JAnalyzing == "{stage: analyzing}"

JResult == "{user_info, tweets, patterns, analysis}"

JError == "{error, fix}"

JDeltaA == "{delta: a}"

JDeltaB == "{delta: b}"

JTool == "{tool: fetch_user}"

JDone == "{}"

JBroken == "{delta: "

\* JSON.parse
JSONParse(raw) ==
    IF Len(raw) # 1 THEN Raised("SyntaxError")
    ELSE CASE raw[1] = JFetching  -> Returned([stage |-> "fetching"])
           [] raw[1] = JAnalyzing -> Returned([stage |-> "analyzing"])
           [] raw[1] = JResult    -> Returned([null |-> FALSE, analysis |-> "profile"])
           [] raw[1] = JError     -> Returned([null |-> FALSE, error |-> "msg", fix |-> "fix"])
           [] raw[1] = JDeltaA    -> Returned([delta |-> "a"])
           [] raw[1] = JDeltaB    -> Returned([delta |-> "b"])
           [] raw[1] = JTool      -> Returned([tool |-> "fetch_user"])
           [] raw[1] = JDone      -> Returned([null |-> FALSE])
           [] OTHER               -> Raised("SyntaxError")

-----------------------------------------------------------------------------
(* frontend/hooks/use-analysis.ts                                          *)

MaxCalls == 2

\* useState<AnalysisState>({ status: "idle", progress: null, result: null, error: null })
IdleState == [status |-> "idle", progress |-> Null, result |-> Null, error |-> Null]

\* setState({ status: "loading", progress: null, result: null, error: null })
LoadingState == [status |-> "loading", progress |-> Null, result |-> Null, error |-> Null]

\* the catch block: setState({ status: "error", ..., error: { error: message, fix } })
CaughtState(message) ==
    [status |-> "error", progress |-> Null, result |-> Null,
     error |-> [null |-> FALSE, error |-> message, fix |-> "Make sure the FastAPI server is running"]]

\* A faulty variant: the error event keeps the other fields of the state.
OnEvent_ErrorKeepsResult(currentEvent, data, s) ==
    IF currentEvent = <<"progress">> THEN [s EXCEPT !.progress = data]
    ELSE IF currentEvent = <<"result">>
    THEN [status |-> "success", progress |-> [stage |-> "done"], result |-> data, error |-> Null]
    ELSE IF currentEvent = <<"error">>
    THEN [s EXCEPT !.status = "error", !.error = data]
    ELSE s

\* the three branches on currentEvent: the AnalysisState after the setState call
OnEvent(currentEvent, data, s) ==
    IF currentEvent = <<"progress">> THEN [s EXCEPT !.progress = data]
    ELSE IF currentEvent = <<"result">>
    THEN [status |-> "success", progress |-> [stage |-> "done"], result |-> data, error |-> Null]
    ELSE IF currentEvent = <<"error">>
    THEN [status |-> "error", progress |-> Null, result |-> Null, error |-> data]
    ELSE s

\* the events for which a branch calls setState
Handled == {<<"progress">>, <<"result">>, <<"error">>}

\* for (const line of lines) { ... }: the state after the loop, the setState
\* calls it made, and whether JSON.parse threw
RECURSIVE ForLines(_, _, _)
ForLines(lines, currentEvent, acc) ==
    IF lines = <<>> THEN acc
    ELSE LET line == Head(lines)
         IN  IF startsWith(line, EventField)
             THEN ForLines(Tail(lines), trim(slice(line)), acc)
             ELSE IF startsWith(line, DataField)
             THEN LET data == JSONParse(slice(line))
                  IN  IF data.st = "raised" THEN [acc EXCEPT !.thrown = TRUE]
                      ELSE ForLines(Tail(lines), <<>>,
                               [acc EXCEPT !.state = OnEvent(currentEvent, data.val, @),
                                           !.updates = IF currentEvent \in Handled
                                                       THEN Append(@, <<currentEvent, data.val>>)
                                                       ELSE @])
             ELSE ForLines(Tail(lines), currentEvent, acc)

\* one turn of the while loop with a chunk in hand: "let currentEvent" is
\* declared inside the loop body, so every chunk starts with no event name
OnChunk(buffer, value, s) ==
    LET popped == PopLast(split(buffer \o value))
    IN  [buffer |-> popped.buffer,
         run    |-> ForLines(popped.lines, <<>>, [state |-> s, updates |-> <<>>, thrown |-> FALSE])]

\* the response bodies: progress then result, progress then error, and a
\* body that closes after its progress event
AnalyzeStreams ==
    { Wire("progress", JFetching) \o Wire("result", JResult),
      Wire("progress", JAnalyzing) \o Wire("error", JError),
      Wire("progress", JFetching) }

\* how a body ends: the stream closes, or the connection fails
Endings == {"closes", "fails"}

HookInit ==
    /\ analysisState = IdleState
    /\ analyzeCalls = <<>>
    /\ hookOthersIdle

\* analyze(username, tweets) up to the await of fetch
analyze ==
    /\ Len(analyzeCalls) < MaxCalls
    /\ analysisState' = LoadingState
    /\ analyzeCalls' = Append(analyzeCalls,
           [at |-> "fetch", stream |-> <<>>, rest |-> <<>>, buffer |-> <<>>,
            updates |-> <<>>])
    /\ UNCHANGED hookOthers

\* fetch resolves with res.ok and a body
Respond(c) ==
    /\ c \in DOMAIN analyzeCalls
    /\ analyzeCalls[c].at = "fetch"
    /\ \E body \in AnalyzeStreams :
           analyzeCalls' = [analyzeCalls EXCEPT ![c] =
               [@ EXCEPT !.at = "read", !.stream = body, !.rest = body]]
    /\ UNCHANGED <<analysisState, hookOthers>>

\* fetch rejects, or !res.ok || !res.body: throw, and the catch block
FetchFails(c) ==
    /\ c \in DOMAIN analyzeCalls
    /\ analyzeCalls[c].at = "fetch"
    /\ \E message \in {"Failed to fetch", "Server error: 500"} :
           analysisState' = CaughtState(message)
    /\ analyzeCalls' = [analyzeCalls EXCEPT ![c].at = "caught"]
    /\ UNCHANGED hookOthers

\* reader.read() resolves with the next n pieces of the body
ReadChunk(c) ==
    /\ c \in DOMAIN analyzeCalls
    /\ analyzeCalls[c].at = "read"
    /\ \E n \in 1..Len(analyzeCalls[c].rest) :
           LET call  == analyzeCalls[c]
               value == SubSeq(call.rest, 1, n)
               turn  == OnChunk(call.buffer, value, analysisState)
           IN  IF turn.run.thrown
               THEN /\ analysisState' = CaughtState("SyntaxError")
                    /\ analyzeCalls' = [analyzeCalls EXCEPT ![c].at = "caught"]
               ELSE /\ analysisState' = turn.run.state
                    /\ analyzeCalls' = [analyzeCalls EXCEPT ![c] =
                           [@ EXCEPT !.rest = SubSeq(call.rest, n + 1, Len(call.rest)),
                                     !.buffer = turn.buffer,
                                     !.updates = @ \o turn.run.updates]]
    /\ UNCHANGED hookOthers

\* reader.read() resolves with done: break, and analyze returns
ReadDone(c) ==
    /\ c \in DOMAIN analyzeCalls
    /\ analyzeCalls[c].at = "read"
    /\ analyzeCalls[c].rest = <<>>
    /\ analyzeCalls' = [analyzeCalls EXCEPT ![c].at = "returned"]
    /\ UNCHANGED <<analysisState, hookOthers>>

\* reader.read() rejects, the connection failing at any point of the body:
\* the catch block
ReadFails(c) ==
    /\ c \in DOMAIN analyzeCalls
    /\ analyzeCalls[c].at = "read"
    /\ analysisState' = CaughtState("network error")
    /\ analyzeCalls' = [analyzeCalls EXCEPT ![c].at = "caught"]
    /\ UNCHANGED hookOthers

HookNext ==
    \/ analyze
    \/ \E c \in 1..MaxCalls : Respond(c)
    \/ \E c \in 1..MaxCalls : FetchFails(c)
    \/ \E c \in 1..MaxCalls : ReadChunk(c)
    \/ \E c \in 1..MaxCalls : ReadDone(c)
    \/ \E c \in 1..MaxCalls : ReadFails(c)

SpecHook == HookInit /\ [][HookNext]_vars

\* the setState calls of a body read in one chunk
InOneChunk(body) == OnChunk(<<>>, body, IdleState).run.updates

\* every call has returned
AllEnded == \A c \in DOMAIN analyzeCalls : analyzeCalls[c].at \in {"returned", "caught"}

-----------------------------------------------------------------------------
(* C23  The state updates a response stream produces are the same however  *)
(* its bytes are split across reader.read() chunks: an event whose event   *)
(* line and data line arrive in different chunks is applied exactly once.  *)

C23_SplitIndependent ==
    \A c \in DOMAIN analyzeCalls :
        analyzeCalls[c].at = "returned" =>
            analyzeCalls[c].updates = InOneChunk(analyzeCalls[c].stream)

-----------------------------------------------------------------------------
(* C24  Every analyze() call leaves the loading state: once the response   *)
(* stream has ended (result event, error event, HTTP error, network        *)
(* failure, or the stream closing), status is "success" or "error".        *)

C24_LeavesLoading ==
    (analyzeCalls # <<>> /\ AllEnded) => analysisState.status \in {"success", "error"}

-----------------------------------------------------------------------------
(* C28  In every reachable AnalysisState, also when analyze calls overlap: *)
(* status is "success" iff result is non-null, status is "error" iff error *)
(* is non-null, and while status is "idle" or "loading" both are null.     *)

C28_StatusMatchesFields ==
    /\ analysisState.status \in {"idle", "loading", "success", "error"}
    /\ analysisState.status = "success" <=> analysisState.result # Null
    /\ analysisState.status = "error" <=> analysisState.error # Null
    /\ analysisState.status \in {"idle", "loading"} =>
           analysisState.result = Null /\ analysisState.error = Null

\* the result of the first call arrives while the second is loading, and the
\* second then fails: the error replaces the result
C28_Witness ==
    /\ Len(analyzeCalls) = 2
    /\ analyzeCalls[1].at = "returned"
    /\ <<<<"result">>, JSONParse(<<JResult>>).val>> \in
           {analyzeCalls[1].updates[i] : i \in DOMAIN analyzeCalls[1].updates}
    /\ Len(analyzeCalls[2].updates) = 0
    /\ analyzeCalls[2].at = "caught"
    /\ analysisState.status = "error"
    /\ analysisState.result = Null
-----------------------------------------------------------------------------
(* frontend/hooks/use-chat.ts: sendMessage and its response stream         *)

MaxSends == 2

WELCOME ==
    [id |-> "system-welcome", role |-> "system", content |-> <<"Hi!">>,
     isStreaming |-> FALSE, toolCalls |-> <<>>, error |-> Null]

\* makeId(): the ids of the two messages of the c-th call (taken as fresh)
makeId(c, role) ==
    IF role = "user" THEN <<"u1", "u2", "u3">>[c] ELSE <<"a1", "a2", "a3">>[c]

\* s.messages.map((m) => m.id === agentMsgId ? f(m) : m)
MapAgent(messages, agentMsgId, f(_)) ==
    [i \in DOMAIN messages |->
        IF messages[i].id = agentMsgId THEN f(messages[i]) ELSE messages[i]]

\* { ...m, content: m.content + delta }
WithDelta(m, delta) == [m EXCEPT !.content = @ \o <<delta>>]

\* { ...m, toolCalls: [...m.toolCalls, toolCall] }
WithToolCall(m, tool) == [m EXCEPT !.toolCalls = Append(@, [tool |-> tool, status |-> "running"])]

\* { ...m, isStreaming: false, error }
WithError(m, error) == [m EXCEPT !.isStreaming = FALSE, !.error = error]

\* { ...m, isStreaming: false }
Finished(m) == [m EXCEPT !.isStreaming = FALSE]

\* A faulty variant: a token is added to every agent message still streaming.
OnChatEvent_TokenToAllStreaming(currentEvent, data, agentMsgId, s) ==
    IF currentEvent = <<"token">>
    THEN [s EXCEPT !.messages =
            [i \in DOMAIN @ |-> IF @[i].isStreaming THEN WithDelta(@[i], data.delta) ELSE @[i]]]
    ELSE IF currentEvent = <<"tool_call">>
    THEN [s EXCEPT !.messages = MapAgent(@, agentMsgId, LAMBDA m : WithToolCall(m, data.tool))]
    ELSE IF currentEvent = <<"error">>
    THEN [messages |-> MapAgent(s.messages, agentMsgId, LAMBDA m : WithError(m, data)),
          isStreaming |-> FALSE]
    ELSE IF currentEvent = <<"done">>
    THEN [messages |-> MapAgent(s.messages, agentMsgId, Finished), isStreaming |-> FALSE]
    ELSE s

\* the branches on currentEvent: the ChatState after the setState call
\* (analysis_result calls onAnalysisResult and leaves the ChatState alone)
OnChatEvent(currentEvent, data, agentMsgId, s) ==
    IF currentEvent = <<"token">>
    THEN [s EXCEPT !.messages = MapAgent(@, agentMsgId, LAMBDA m : WithDelta(m, data.delta))]
    ELSE IF currentEvent = <<"tool_call">>
    THEN [s EXCEPT !.messages = MapAgent(@, agentMsgId, LAMBDA m : WithToolCall(m, data.tool))]
    ELSE IF currentEvent = <<"error">>
    THEN [messages |-> MapAgent(s.messages, agentMsgId, LAMBDA m : WithError(m, data)),
          isStreaming |-> FALSE]
    ELSE IF currentEvent = <<"done">>
    THEN [messages |-> MapAgent(s.messages, agentMsgId, Finished), isStreaming |-> FALSE]
    ELSE s

\* for (const line of lines) { ... }: a data line that is not JSON is skipped
\* by "continue", which also skips the reset of currentEvent
RECURSIVE ChatForLines(_, _, _, _)
ChatForLines(lines, currentEvent, agentMsgId, s) ==
    IF lines = <<>> THEN s
    ELSE LET line == Head(lines)
         IN  IF startsWith(line, EventField)
             THEN ChatForLines(Tail(lines), trim(slice(line)), agentMsgId, s)
             ELSE IF startsWith(line, DataField)
             THEN LET data == JSONParse(slice(line))
                  IN  IF data.st = "raised"
                      THEN ChatForLines(Tail(lines), currentEvent, agentMsgId, s)
                      ELSE ChatForLines(Tail(lines), <<>>, agentMsgId,
                               OnChatEvent(currentEvent, data.val, agentMsgId, s))
             ELSE ChatForLines(Tail(lines), currentEvent, agentMsgId, s)

\* one turn of the while loop with a chunk in hand
OnChatChunk(buffer, value, agentMsgId, s) ==
    LET popped == PopLast(split(buffer \o value))
    IN  [buffer |-> popped.buffer,
         state  |-> ChatForLines(popped.lines, <<>>, agentMsgId, s)]

\* the response bodies: two tokens and done; a tool call and an error; a
\* token after which the body closes; a token that is not JSON, then done
ChatStreams ==
    { Wire("token", JDeltaA) \o Wire("token", JDeltaB) \o Wire("done", JDone),
      Wire("tool_call", JTool) \o Wire("error", JError),
      Wire("token", JDeltaA),
      Wire("token", JBroken) \o Wire("done", JDone) }

TalkInit ==
    /\ chatState = [messages |-> <<WELCOME>>, isStreaming |-> FALSE]
    /\ sendCalls = <<>>
    /\ talkOthersIdle

\* sendMessage(text) up to the await of fetch, for a text that is not blank
sendMessage ==
    /\ Len(sendCalls) < MaxSends
    /\ LET c        == Len(sendCalls) + 1
           userMsg  == [id |-> makeId(c, "user"), role |-> "user", content |-> <<"hello">>,
                        isStreaming |-> FALSE, toolCalls |-> <<>>, error |-> Null]
           agentMsg == [id |-> makeId(c, "agent"), role |-> "agent", content |-> <<>>,
                        isStreaming |-> TRUE, toolCalls |-> <<>>, error |-> Null]
       IN  /\ chatState' = [messages |-> chatState.messages \o <<userMsg, agentMsg>>,
                            isStreaming |-> TRUE]
           /\ sendCalls' = Append(sendCalls,
                  [at |-> "fetch", agentMsgId |-> agentMsg.id, stream |-> <<>>, rest |-> <<>>,
                   buffer |-> <<>>, ending |-> "closes", whole |-> TRUE])
    /\ UNCHANGED talkOthers

\* the catch block of sendMessage
Caught(c, message) ==
    [messages |-> MapAgent(chatState.messages, sendCalls[c].agentMsgId,
                     LAMBDA m : WithError(m, [null |-> FALSE, error |-> message,
                                             fix |-> "Make sure the FastAPI server is running"])),
     isStreaming |-> FALSE]

\* fetch resolves with res.ok and a body
ChatRespond(c) ==
    /\ c \in DOMAIN sendCalls
    /\ sendCalls[c].at = "fetch"
    /\ \E body \in ChatStreams, e \in Endings :
           sendCalls' = [sendCalls EXCEPT ![c] =
               [@ EXCEPT !.at = "read", !.stream = body, !.rest = body, !.ending = e]]
    /\ UNCHANGED <<chatState, talkOthers>>

\* fetch rejects, or !res.ok || !res.body: throw, and the catch block
ChatFetchFails(c) ==
    /\ c \in DOMAIN sendCalls
    /\ sendCalls[c].at = "fetch"
    /\ \E message \in {"Failed to fetch", "Server error: 500"} :
           chatState' = Caught(c, message)
    /\ sendCalls' = [sendCalls EXCEPT ![c].at = "ended", ![c].ending = "fails"]
    /\ UNCHANGED talkOthers

\* reader.read() resolves with the next n pieces of the body; "whole" records
\* whether every chunk so far ended with the blank line that ends an event
ChatReadChunk(c) ==
    /\ c \in DOMAIN sendCalls
    /\ sendCalls[c].at = "read"
    /\ \E n \in 1..Len(sendCalls[c].rest) :
           LET call  == sendCalls[c]
               value == SubSeq(call.rest, 1, n)
               turn  == OnChatChunk(call.buffer, value, call.agentMsgId, chatState)
           IN  /\ chatState' = turn.state
               /\ sendCalls' = [sendCalls EXCEPT ![c] =
                      [@ EXCEPT !.rest = SubSeq(call.rest, n + 1, Len(call.rest)),
                                !.buffer = turn.buffer,
                                !.whole = @ /\ n >= 2 /\ value[n] = NL /\ value[n - 1] = NL]]
    /\ UNCHANGED talkOthers

\* reader.read() resolves with done: break, and sendMessage returns
ChatReadDone(c) ==
    /\ c \in DOMAIN sendCalls
    /\ sendCalls[c].at = "read"
    /\ sendCalls[c].rest = <<>>
    /\ sendCalls[c].ending = "closes"
    /\ sendCalls' = [sendCalls EXCEPT ![c].at = "ended"]
    /\ UNCHANGED <<chatState, talkOthers>>

\* reader.read() rejects: the catch block
ChatReadFails(c) ==
    /\ c \in DOMAIN sendCalls
    /\ sendCalls[c].at = "read"
    /\ sendCalls[c].ending = "fails"
    /\ chatState' = Caught(c, "network error")
    /\ sendCalls' = [sendCalls EXCEPT ![c].at = "ended"]
    /\ UNCHANGED talkOthers

TalkNext ==
    \/ sendMessage
    \/ \E c \in 1..MaxSends : ChatRespond(c)
    \/ \E c \in 1..MaxSends : ChatFetchFails(c)
    \/ \E c \in 1..MaxSends : ChatReadChunk(c)
    \/ \E c \in 1..MaxSends : ChatReadDone(c)
    \/ \E c \in 1..MaxSends : ChatReadFails(c)

SpecTalk == TalkInit /\ [][TalkNext]_vars

\* the part of the body of call c that has arrived, as complete lines
Arrived(c) ==
    LET call == sendCalls[c]
        got  == SubSeq(call.stream, 1, Len(call.stream) - Len(call.rest))
    IN  PopLast(split(got)).lines

\* the deltas of the token events among lines, in order: a token event is
\* an "event: token" line followed by a data line that holds JSON
RECURSIVE DeltasOf(_)
DeltasOf(lines) ==
    IF Len(lines) < 2 THEN <<>>
    ELSE IF /\ lines[1] = <<EventField, "token">>
            /\ startsWith(lines[2], DataField)
            /\ JSONParse(slice(lines[2])).st = "returned"
    THEN <<JSONParse(slice(lines[2])).val.delta>> \o DeltasOf(Tail(Tail(lines)))
    ELSE DeltasOf(Tail(lines))

\* the user message and the agent message of call c
UserOf(c) == chatState.messages[2 * c]

AgentOf(c) == chatState.messages[2 * c + 1]

-----------------------------------------------------------------------------
(* C25  After sendMessage, once the response stream has ended (done event, *)
(* error event, HTTP error, network failure, or the stream closing without *)
(* a done event), state.isStreaming is false and the agent message of the  *)
(* call has isStreaming false.                                             *)

C25_StreamingEnds ==
    (sendCalls # <<>> /\ \A c \in DOMAIN sendCalls : sendCalls[c].at = "ended") =>
        /\ ~chatState.isStreaming
        /\ \A c \in DOMAIN sendCalls : ~AgentOf(c).isStreaming

-----------------------------------------------------------------------------
(* C26  The messages list only grows: each sendMessage appends one user    *)
(* message immediately followed by its agent message, and a token or       *)
(* tool_call event changes only the agent message of the same call, whose  *)
(* content is the concatenation of the deltas in arrival order; every      *)
(* other message stays as it was.                                          *)

FramedMessages ==
    /\ Len(chatState.messages) = 1 + 2 * Len(sendCalls)
    /\ chatState.messages[1] = WELCOME
    /\ \A c \in DOMAIN sendCalls :
           /\ UserOf(c) = [id |-> makeId(c, "user"), role |-> "user", content |-> <<"hello">>,
                           isStreaming |-> FALSE, toolCalls |-> <<>>, error |-> Null]
           /\ AgentOf(c).id = sendCalls[c].agentMsgId
           /\ AgentOf(c).role = "agent"

C26_OnlyOwnAgentMessage ==
    /\ FramedMessages
    /\ \A c \in DOMAIN sendCalls : AgentOf(c).content = DeltasOf(Arrived(c))

\* the same, for the calls whose chunks all ended with an event
C26_WhenEventsArriveWhole ==
    /\ FramedMessages
    /\ \A c \in DOMAIN sendCalls :
           sendCalls[c].whole => AgentOf(c).content = DeltasOf(Arrived(c))

\* two calls overlap and each agent message holds its own two deltas
C26_WholeWitness ==
    /\ Len(sendCalls) = 2
    /\ \A c \in {1, 2} : sendCalls[c].whole /\ sendCalls[c].at = "ended"
                            /\ AgentOf(c).content = <<"a", "b">>
-----------------------------------------------------------------------------
(* frontend/hooks/use-session-manager.ts                                   *)

MaxRequests == 3

\* crypto.randomUUID(): the id made by the n-th request (taken as fresh)
randomUUID(n) == <<"n1", "n2", "n3", "n4", "n5", "n6", "n7", "n8">>[n]

Session(id, title) == [session_id |-> id, title |-> title]

\* sessions.filter((s) => s.session_id !== id)
Without(list, id) == SelectSeq(list, LAMBDA s : s.session_id # id)

IdsOf(list) == {list[i].session_id : i \in DOMAIN list}

\* load(): sessions and activeSessionId once the effect has run.  data is the
\* list the backend returns (<<>>: none yet), saved the id in localStorage,
\* up whether the backend answers
load(data, saved, up) ==
    IF ~up
    THEN LET id == IF saved # "" THEN saved ELSE "n0"
         IN  [sessions |-> <<Session(id, "Chat 1")>>, activeId |-> id]
    ELSE IF Len(data) = 0
    THEN [sessions |-> <<Session("n0", "Chat 1")>>, activeId |-> "n0"]
    ELSE [sessions |-> data,
          activeId |-> IF saved \in IdsOf(data) THEN saved ELSE data[Len(data)].session_id]

\* what the backend may hold when the page is opened
StoredLists ==
    { <<>>, <<Session("A", "Chat 1")>>, <<Session("A", "Chat 1"), Session("B", "Chat 2")>> }

MgrInit ==
    /\ \E data \in StoredLists, saved \in {"", "A", "B"}, up \in BOOLEAN :
           /\ sessions = load(data, saved, up).sessions
           /\ activeId = load(data, saved, up).activeId
    /\ requests = <<>>
    /\ mgrOthersIdle

InFlight(r) == r \in DOMAIN requests /\ ~requests[r].resolved

\* createSession() up to the await of the POST
createSession ==
    /\ Len(requests) < MaxRequests
    /\ requests' = Append(requests,
           [op |-> "create", id |-> randomUUID(Len(requests) + 1),
            title |-> "Chat n", seen |-> sessions, resolved |-> FALSE])
    /\ UNCHANGED <<sessions, activeId, mgrOthers>>

\* the POST of createSession resolves or fails: the session is appended and
\* made active either way
CreateResolves(r) ==
    /\ InFlight(r)
    /\ requests[r].op = "create"
    /\ sessions' = Append(sessions, Session(requests[r].id, requests[r].title))
    /\ activeId' = requests[r].id
    /\ requests' = [requests EXCEPT ![r].resolved = TRUE]
    /\ UNCHANGED mgrOthers

\* switchSession(id), for an id of the list
switchSession(id) ==
    /\ id \in IdsOf(sessions)
    /\ activeId # id
    /\ activeId' = id
    /\ UNCHANGED <<sessions, requests, mgrOthers>>

\* deleteSession(id) up to the await of the DELETE; the callback holds the
\* sessions of the render it was made in
deleteSession(id) ==
    /\ Len(requests) < MaxRequests
    /\ id \in IdsOf(sessions)
    /\ requests' = Append(requests,
           [op |-> "delete", id |-> id, title |-> "", seen |-> sessions, resolved |-> FALSE])
    /\ UNCHANGED <<sessions, activeId, mgrOthers>>

\* const remaining = sessions.filter(...) inside the setActiveSessionId updater
Remaining(r) == Without(requests[r].seen, requests[r].id)

\* the DELETE resolves or fails: setSessions(prev => prev.filter(...)) and
\* the setActiveSessionId updater, which may issue the replacing POST
DeleteResolves(r) ==
    /\ InFlight(r)
    /\ requests[r].op = "delete"
    /\ sessions' = Without(sessions, requests[r].id)
    /\ LET remaining == Remaining(r)
           done      == [requests EXCEPT ![r].resolved = TRUE]
       IN  IF Len(remaining) = 0
           THEN /\ requests' = Append(done,
                       [op |-> "replace", id |-> randomUUID(Len(requests) + 1),
                        title |-> "Chat 1", seen |-> <<>>, resolved |-> FALSE])
                /\ activeId' = activeId
           ELSE /\ requests' = done
                /\ activeId' = IF activeId = requests[r].id
                               THEN remaining[Len(remaining)].session_id
                               ELSE activeId
    /\ UNCHANGED mgrOthers

\* the replacing POST resolves or fails: setSessions([created])
ReplaceResolves(r) ==
    /\ InFlight(r)
    /\ requests[r].op = "replace"
    /\ sessions' = <<Session(requests[r].id, requests[r].title)>>
    /\ activeId' = requests[r].id
    /\ requests' = [requests EXCEPT ![r].resolved = TRUE]
    /\ UNCHANGED mgrOthers

\* renameSession(id, title) up to the await of the PATCH
renameSession(id) ==
    /\ Len(requests) < MaxRequests
    /\ id \in IdsOf(sessions)
    /\ requests' = Append(requests,
           [op |-> "rename", id |-> id, title |-> "renamed", seen |-> sessions,
            resolved |-> FALSE])
    /\ UNCHANGED <<sessions, activeId, mgrOthers>>

\* the PATCH resolves or fails: the title is replaced in the list
RenameResolves(r) ==
    /\ InFlight(r)
    /\ requests[r].op = "rename"
    /\ sessions' = [i \in DOMAIN sessions |->
                       IF sessions[i].session_id = requests[r].id
                       THEN [sessions[i] EXCEPT !.title = requests[r].title]
                       ELSE sessions[i]]
    /\ requests' = [requests EXCEPT ![r].resolved = TRUE]
    /\ UNCHANGED <<activeId, mgrOthers>>

SessionIds == {"A", "B", "n0"} \cup {randomUUID(n) : n \in 1..8}

MgrNext ==
    \/ createSession
    \/ \E id \in SessionIds : switchSession(id)
    \/ \E id \in SessionIds : deleteSession(id)
    \/ \E id \in SessionIds : renameSession(id)
    \/ \E r \in 1..(2 * MaxRequests) : CreateResolves(r)
    \/ \E r \in 1..(2 * MaxRequests) : DeleteResolves(r)
    \/ \E r \in 1..(2 * MaxRequests) : ReplaceResolves(r)
    \/ \E r \in 1..(2 * MaxRequests) : RenameResolves(r)

SpecMgr == MgrInit /\ [][MgrNext]_vars

-----------------------------------------------------------------------------
(* C22  After the initial load, once every request in flight has resolved, *)
(* for every interleaving of createSession, switchSession, deleteSession   *)
(* and renameSession calls, sessions is non-empty and activeSessionId is   *)
(* the session_id of an entry of sessions.                                 *)

Settled == \A r \in DOMAIN requests : requests[r].resolved

C22_ActiveIsListed ==
    Settled => sessions # <<>> /\ activeId \in IdsOf(sessions)
-----------------------------------------------------------------------------
(* POST /api/analyze/{username}: the generator behind EventSourceResponse  *)

\* the calls _generate makes, in the order it makes them
GenCalls ==
    <<"fetch_snapshot", "extract_tweet_data", "extract_user_info",
      "compute_posting_patterns", "analyze_user_profile">>

\* str(exc) of the exceptions the calls may raise
Messages == {"Connection refused", "OPENAI_API_KEY not set", "invalid literal for int()"}

ProgressEvent(stage) == [event |-> "progress", data |-> [stage |-> stage]]

ResultEvent == [event |-> "result", data |-> [analysis |-> "profile"]]

\* the except block: fix is chosen by what the message contains
ErrorEvent(msg) ==
    [event |-> "error",
     data  |-> [error |-> msg,
                fix   |-> IF msg = "Connection refused"
                          THEN "Start Camofox Browser: cd camofox-browser && npm start"
                          ELSE IF msg = "OPENAI_API_KEY not set"
                          THEN "Set OPENAI_API_KEY in your .env file"
                          ELSE ""]]

\* the first of the calls numbered from..to that raises (0: none does)
RECURSIVE FirstRaise(_, _)
FirstRaise(from, to) ==
    IF from > to THEN 0
    ELSE IF raises[from] # "" THEN from
    ELSE FirstRaise(from + 1, to)

\* A faulty variant: the exception ends the stream without an event.
Resume_Silent(from, to, next, at) ==
    LET k == FirstRaise(from, to)
    IN  IF k = 0
        THEN [emitted |-> Append(emitted, next), at |-> at]
        ELSE [emitted |-> emitted, at |-> "terminal"]

\* the generator runs the calls from..to inside the try block and yields
\* next; an exception is caught and the error event is yielded instead
Resume(from, to, next, at) ==
    LET k == FirstRaise(from, to)
    IN  IF k = 0
        THEN [emitted |-> Append(emitted, next), at |-> at]
        ELSE [emitted |-> Append(emitted, ErrorEvent(raises[k])), at |-> "terminal"]

GenInit ==
    /\ gen_at = "start"
    /\ emitted = <<>>
    /\ raises \in [DOMAIN GenCalls -> Messages \cup {""}]
    /\ genOthersIdle

\* yield progress "fetching"
YieldFetching ==
    /\ gen_at = "start"
    /\ emitted' = Append(emitted, ProgressEvent("fetching"))
    /\ gen_at' = "fetching"
    /\ UNCHANGED <<raises, genOthers>>

\* fetch_snapshot, extract_tweet_data, the author filter; yield progress "parsing"
YieldParsing ==
    /\ gen_at = "fetching"
    /\ emitted' = Resume(1, 2, ProgressEvent("parsing"), "parsing").emitted
    /\ gen_at' = Resume(1, 2, ProgressEvent("parsing"), "parsing").at
    /\ UNCHANGED <<raises, genOthers>>

\* extract_user_info, compute_posting_patterns; yield progress "analyzing"
YieldAnalyzing ==
    /\ gen_at = "parsing"
    /\ emitted' = Resume(3, 4, ProgressEvent("analyzing"), "analyzing").emitted
    /\ gen_at' = Resume(3, 4, ProgressEvent("analyzing"), "analyzing").at
    /\ UNCHANGED <<raises, genOthers>>

\* await analyze_user_profile; yield result
YieldResult ==
    /\ gen_at = "analyzing"
    /\ emitted' = Resume(5, 5, ResultEvent, "terminal").emitted
    /\ gen_at' = Resume(5, 5, ResultEvent, "terminal").at
    /\ UNCHANGED <<raises, genOthers>>

\* resumed after the result or the error event, the generator returns
GenReturn ==
    /\ gen_at = "terminal"
    /\ gen_at' = "closed"
    /\ UNCHANGED <<emitted, raises, genOthers>>

GenNext ==
    \/ YieldFetching
    \/ YieldParsing
    \/ YieldAnalyzing
    \/ YieldResult
    \/ GenReturn

SpecGen == GenInit /\ [][GenNext]_vars

\* EventSourceResponse iterates the generator until it is exhausted, and each
\* call the generator makes returns or raises
SpecGenFair == SpecGen /\ WF_vars(GenNext)

\* the stages of the progress events yielded so far
StagesOf(events) ==
    LET ps == SelectSeq(events, LAMBDA e : e.event = "progress")
    IN  [i \in DOMAIN ps |-> ps[i].data.stage]

IsPrefix(s, t) == Len(s) <= Len(t) /\ s = SubSeq(t, 1, Len(s))

Terminal(e) == e.event \in {"result", "error"}

\* how many progress events precede the yield that follows call k
StageOfCall(k) == IF k <= 2 THEN 1 ELSE IF k <= 4 THEN 2 ELSE 3

-----------------------------------------------------------------------------
(* C27  The stream emits progress events only in the order fetching,       *)
(* parsing, analyzing, and ends with exactly one terminal event, result    *)
(* after all three stages succeeded or error at the first failure, with no *)
(* event after the terminal one.                                           *)

OrderedThenTerminal ==
    LET n == Len(emitted)
        k == FirstRaise(1, Len(GenCalls))
    IN  /\ IsPrefix(StagesOf(emitted), <<"fetching", "parsing", "analyzing">>)
        /\ \A i \in 1..n : Terminal(emitted[i]) => i = n
        /\ gen_at \in {"terminal", "closed"} <=> (n > 0 /\ Terminal(emitted[n]))
        /\ (n > 0 /\ emitted[n].event = "result") =>
               k = 0 /\ StagesOf(emitted) = <<"fetching", "parsing", "analyzing">>
        /\ (n > 0 /\ emitted[n].event = "error") =>
               /\ k # 0
               /\ emitted[n] = ErrorEvent(raises[k])
               /\ Len(StagesOf(emitted)) = StageOfCall(k)

C27_ProgressThenOneTerminal ==
    /\ []OrderedThenTerminal
    /\ <>(gen_at = "closed" /\ Terminal(emitted[Len(emitted)]))

\* compute_posting_patterns raises after two stages: two progress events,
\* then the error and nothing more
C27_Witness ==
    /\ gen_at = "closed"
    /\ raises[4] = "invalid literal for int()"
    /\ Len(emitted) = 3
    /\ StagesOf(emitted) = <<"fetching", "parsing">>
    /\ emitted[3].event = "error"
    /\ emitted[3].data.fix = ""
=============================================================================
